---- MODULE Spec2Model ----
(***************************************************************************)
(* Model of the conversion uploader: a batch job that selects warehouse    *)
(* events not yet delivered to Google Ads / Microsoft Ads, uploads them,   *)
(* writes one delivery-log row per outcome and sends retractions for       *)
(* refunds.                                                                *)
(*                                                                         *)
(* The selection queries are modelled with SQL semantics (LEFT JOIN row    *)
(* multiplication, NULL tests, ROW_NUMBER ranking), the adapters with      *)
(* their batch loops and exception paths, the orchestrator with one        *)
(* position (pc) per step of main / process_event_type / process_refunds.  *)
(***************************************************************************)
EXTENDS Integers, Sequences, FiniteSets, TLC

VARIABLES
    warehouse,   \* the warehouse tables read by the queries (never written)
    log,         \* ad_conversion_log: sequence of rows, in insertion order
    pc,          \* position of the run inside main()
    cat,         \* index into event_queries (main.py:351-356)
    events,      \* rows returned by the last run_query
    call,        \* the last adapter call: its input, the platform's answers, its result
    cache,       \* gads_action_cache (main.py:333)
    summary,     \* summary counters (main.py:345-348)
    runs,        \* number of runs started so far
    faults,      \* number of environment faults injected so far
    skip_dedup,  \* main(): not log_table_ready (main.py:325)
    DRY_RUN,     \* config.DRY_RUN as the process of the run read it (config.py:49)
    exit_status, \* <<>> while no run has exited, <<code>> after sys.exit(code)
    hist         \* history: what the log looked like at run start / selection,
                 \* and what the current run has done so far

vars ==
    <<warehouse, log, pc, cat, events, call, cache, summary, runs, faults,
      skip_dedup, DRY_RUN, exit_status, hist>>

----------------------------------------------------------------------------
(* Bounds of the model *)

\* number of runs of the job explored one after the other
MaxRuns == 3
\* number of environment faults (lookup misses, failed inserts) per behaviour
MaxFaults == 1

----------------------------------------------------------------------------
(* Program constants *)

\* config.py:48 and config.py:51; both are read from the environment, and the
\* ceiling is set to 2 here (its default is 3) so that three runs reach it
LOOKBACK_DAYS == 30
MAX_RETRIES == 2
\* CURRENT_TIMESTAMP() of the queries, in days
CurrentTime == 40
\* google_ads_client.py:20 and microsoft_ads_client.py:25, scaled down
\* (2000 and 1000 in the source) so that a call spans several batches
GADS_BATCH_SIZE == 2
MSADS_BATCH_SIZE == 2

SEND_RENEWAL_PAYMENTS == FALSE

NULL == "NULL"

GOOGLE == "google_ads"
MICROSOFT == "microsoft_ads"
Platforms == {GOOGLE, MICROSOFT}

GADS_ACTION_MAP ==
    [et \in {"trial_start", "monthly_subscription", "yearly_subscription",
             "document_purchase", "chat_purchase"} |->
        CASE et = "trial_start" -> "Trial Start DWH"
          [] et = "monthly_subscription" -> "Monthly Subscription DWH"
          [] et = "yearly_subscription" -> "Yearly Subscription DWH"
          [] et = "document_purchase" -> "Document Purchase DWH"
          [] et = "chat_purchase" -> "Chat Purchase DWH"]

MSADS_GOAL_MAP ==
    [et \in {"trial_start", "monthly_subscription", "yearly_subscription",
             "document_purchase", "chat_purchase"} |->
        CASE et = "trial_start" -> "Trial Start DWH"
          [] et = "monthly_subscription" -> "Monthly Subscription DWH"
          [] et = "yearly_subscription" -> "Yearly Subscription DWH"
          [] et = "document_purchase" -> "Document Purchase DWH"
          [] et = "chat_purchase" -> "Chat Purchase DWH"]

\* dict.get(key): None for a missing key
MapGet(map, key) == IF key \in DOMAIN map THEN map[key] ELSE NULL

AllActions == {GADS_ACTION_MAP[et] : et \in DOMAIN GADS_ACTION_MAP}

----------------------------------------------------------------------------
(* Generic helpers *)

Max(a, b) == IF a >= b THEN a ELSE b
Min(a, b) == IF a <= b THEN a ELSE b

RECURSIVE Flatten(_)
Flatten(ss) == IF ss = <<>> THEN <<>> ELSE Head(ss) \o Flatten(Tail(ss))

Repeat(x, n) == [i \in 1..n |-> x]

\* indices of the rows of a sequence that satisfy a test
Where(s, Test(_)) == {i \in 1..Len(s) : Test(s[i])}

COALESCE(a, b) == IF a # NULL THEN a ELSE b

----------------------------------------------------------------------------
(* The warehouse: dim_users, dim_attribution, trial_started, fct_payments *)

Trial(id, u, t) == [event_id |-> id, user_id |-> u, trial_started_at |-> t]

Payment(id, u, t, amt, ptype, psource, freq, plan) ==
    [payment_id |-> id, user_id |-> u, payment_at |-> t, amount |-> amt,
     payment_type |-> ptype, payment_source |-> psource,
     payment_status |-> "completed", billing_frequency |-> freq, plan_code |-> plan]

\* u1: direct gclid (takes precedence over first touch), first-touch msclkid
\* u2: first-touch gclid only;  u3: no click id;  u4: direct msclkid only
DimUsers ==
    [u \in {"u1", "u2", "u3", "u4"} |->
        CASE u = "u1" -> [conversion_gclid |-> "g1", conversion_msclkid |-> NULL]
          [] u = "u2" -> [conversion_gclid |-> NULL, conversion_msclkid |-> NULL]
          [] u = "u3" -> [conversion_gclid |-> NULL, conversion_msclkid |-> NULL]
          [] u = "u4" -> [conversion_gclid |-> NULL, conversion_msclkid |-> "m4"]]

DimAttribution ==
    [u \in {"u1", "u2", "u3", "u4"} |->
        CASE u = "u1" -> [first_touch_gclid |-> "g1ft", first_touch_msclkid |-> "m1ft"]
          [] u = "u2" -> [first_touch_gclid |-> "g2ft", first_touch_msclkid |-> NULL]
          [] u = "u3" -> [first_touch_gclid |-> NULL, first_touch_msclkid |-> NULL]
          [] u = "u4" -> [first_touch_gclid |-> NULL, first_touch_msclkid |-> NULL]]

\* one trial of a user with both click ids, one of a user without any,
\* one outside the lookback window
WhBoth ==
    [trial |-> <<Trial("t1", "u1", 20), Trial("t3", "u3", 20), Trial("t0", "u1", 5)>>,
     payments |-> <<>>]

\* three trials with a Google click id only: one upload call, two batches
WhBatches ==
    [trial |-> <<Trial("t2", "u2", 20), Trial("t4", "u2", 21), Trial("t5", "u2", 22)>>,
     payments |-> <<>>]

\* a monthly and a yearly subscription (two conversion actions in one call),
\* a renewal, a payment that is not completed
WhSubs ==
    [trial |-> <<>>,
     payments |-> <<
        Payment("s1", "u2", 20, 10, "initial_subscription", "subscription", "monthly", NULL),
        Payment("s2", "u2", 21, 90, "initial_subscription", "subscription", "annual", NULL),
        Payment("s3", "u2", 22, 10, "renewal", "subscription", "monthly", NULL),
        [Payment("s4", "u2", 22, 10, "initial_subscription", "subscription", "monthly", NULL)
            EXCEPT !.payment_status = "pending"]>>]

\* purchases at different times and a refund of the same user
WhRefund ==
    [trial |-> <<>>,
     payments |-> <<
        Payment("d1", "u2", 20, 5, "order", "order", NULL, NULL),
        Payment("c1", "u2", 21, 7, "order", "order", NULL, "10"),
        Payment("r1", "u2", 25, -5, "order_refund", "order", NULL, NULL)>>]

\* a trial and a purchase of the same user at the same time, and a refund
WhTie ==
    [trial |-> <<Trial("t6", "u4", 20)>>,
     payments |-> <<
        Payment("d2", "u4", 20, 5, "order", "order", NULL, "7"),
        Payment("r2", "u4", 25, -5, "refund", "order", NULL, NULL)>>]

\* two monthly subscriptions and a yearly one: one upload call of two batches,
\* the second batch with a conversion action the first one did not use
WhLate ==
    [trial |-> <<>>,
     payments |-> <<
        Payment("s5", "u2", 20, 10, "initial_subscription", "subscription", "monthly", NULL),
        Payment("s6", "u2", 21, 10, "initial_subscription", "subscription", "monthly", NULL),
        Payment("s7", "u2", 22, 90, "initial_subscription", "subscription", "annual", NULL)>>]

Warehouses == {WhBoth, WhBatches, WhSubs, WhRefund, WhTie, WhLate}

\* a purchase, two refunds and a later purchase of one user with a gclid
WhTwoRefunds ==
    [trial |-> <<>>,
     payments |-> <<
        Payment("d3", "u2", 20, 5, "order", "order", NULL, NULL),
        Payment("r3", "u2", 22, -5, "order_refund", "order", NULL, NULL),
        Payment("r4", "u2", 23, -5, "refund", "order", NULL, NULL),
        Payment("d4", "u2", 24, 5, "order", "order", NULL, NULL)>>]

----------------------------------------------------------------------------
(* The selection queries (queries.py), evaluated over the warehouse wh and  *)
(* the delivery log L, with SQL semantics.                                  *)

\* COALESCE(du.conversion_gclid, da.first_touch_gclid) after the two LEFT JOINs
\* on user_id (NULL when the user has no row)
Gclid(u) ==
    COALESCE(IF u \in DOMAIN DimUsers THEN DimUsers[u].conversion_gclid ELSE NULL,
             IF u \in DOMAIN DimAttribution THEN DimAttribution[u].first_touch_gclid ELSE NULL)

Msclkid(u) ==
    COALESCE(IF u \in DOMAIN DimUsers THEN DimUsers[u].conversion_msclkid ELSE NULL,
             IF u \in DOMAIN DimAttribution THEN DimAttribution[u].first_touch_msclkid ELSE NULL)

\* ts >= TIMESTAMP_SUB(CURRENT_TIMESTAMP(), INTERVAL lookback_days DAY)
InWindow(t, lookback_days) == t >= CurrentTime - lookback_days

\* the CTE failed_counts: fail_count of (event_id, platform) among the 'failed'
\* rows whose event_type is one of types; 0 stands for "no group"
failed_counts(L, types, id, platform) ==
    Cardinality({i \in 1..Len(L) :
        /\ L[i].event_type \in types
        /\ L[i].status = "failed"
        /\ L[i].event_id = id
        /\ L[i].platform = platform})

\* rows of the log that LEFT JOIN log_g / log_m matches for an event
SentJoin(L, id, platform) ==
    {i \in 1..Len(L) :
        L[i].event_id = id /\ L[i].platform = platform /\ L[i].status = "sent"}

\* variant of OverRetried: the ceiling compared with > in place of >=
OverRetriedMutant(L, types, id, platform, max_retries) ==
    failed_counts(L, types, id, platform) > max_retries

\* LEFT JOIN failed_counts fc ON ... AND fc.fail_count >= max_retries:
\* TRUE when the join finds a row (fc.event_id IS NOT NULL)
OverRetried(L, types, id, platform, max_retries) ==
    failed_counts(L, types, id, platform) >= max_retries

\* Number of result rows one source row yields: the four LEFT JOINs on the log
\* multiply the row by the number of matches of each join (at least one, the
\* NULL-extended row), and the WHERE clause keeps or drops all of them.
UnsentMultiplicity(L, types, id, gclid, msclkid, max_retries) ==
    LET n_g == Cardinality(SentJoin(L, id, GOOGLE))
        n_m == Cardinality(SentJoin(L, id, MICROSOFT))
        fc_g == OverRetried(L, types, id, GOOGLE, max_retries)
        fc_m == OverRetried(L, types, id, MICROSOFT, max_retries)
        keep ==
            /\ (gclid # NULL \/ msclkid # NULL)
            /\ \/ (gclid # NULL /\ n_g = 0 /\ ~fc_g)
               \/ (msclkid # NULL /\ n_m = 0 /\ ~fc_m)
    IN  IF keep THEN Max(1, n_g) * Max(1, n_m) ELSE 0

EventRow(id, et, u, t, v) ==
    [event_id |-> id, event_type |-> et, user_id |-> u, conversion_time |-> t,
     conversion_value |-> v, gclid |-> Gclid(u), msclkid |-> Msclkid(u)]

get_unsent_trial_starts_query(wh, L, lookback_days, max_retries) ==
    Flatten([k \in 1..Len(wh.trial) |->
        LET ts == wh.trial[k]
            row == EventRow(ts.event_id, "trial_start", ts.user_id, ts.trial_started_at, 0)
        IN  IF InWindow(ts.trial_started_at, lookback_days)
            THEN Repeat(row, UnsentMultiplicity(L, {"trial_start"}, ts.event_id,
                                                row.gclid, row.msclkid, max_retries))
            ELSE <<>>])

get_unsent_subscriptions_query(wh, L, lookback_days, max_retries, include_renewals) ==
    Flatten([k \in 1..Len(wh.payments) |->
        LET p == wh.payments[k]
            et == IF p.billing_frequency = "annual"
                  THEN "yearly_subscription" ELSE "monthly_subscription"
            row == EventRow(p.payment_id, et, p.user_id, p.payment_at, p.amount)
            payment_type_filter ==
                IF include_renewals
                THEN p.payment_type \in {"initial_subscription", "renewal"}
                ELSE p.payment_type = "initial_subscription"
        IN  IF /\ InWindow(p.payment_at, lookback_days)
               /\ payment_type_filter
               /\ p.payment_source = "subscription"
               /\ p.payment_status = "completed"
               /\ p.amount > 0
            THEN Repeat(row, UnsentMultiplicity(L, {"monthly_subscription", "yearly_subscription"},
                                                p.payment_id, row.gclid, row.msclkid, max_retries))
            ELSE <<>>])

get_unsent_document_purchases_query(wh, L, lookback_days, max_retries) ==
    Flatten([k \in 1..Len(wh.payments) |->
        LET p == wh.payments[k]
            row == EventRow(p.payment_id, "document_purchase", p.user_id, p.payment_at, p.amount)
        IN  IF /\ InWindow(p.payment_at, lookback_days)
               /\ p.payment_type = "order"
               /\ p.payment_source = "order"
               /\ p.payment_status = "completed"
               /\ p.amount > 0
               /\ (p.plan_code = NULL \/ p.plan_code # "10")
            THEN Repeat(row, UnsentMultiplicity(L, {"document_purchase"}, p.payment_id,
                                                row.gclid, row.msclkid, max_retries))
            ELSE <<>>])

get_unsent_chat_purchases_query(wh, L, lookback_days, max_retries) ==
    Flatten([k \in 1..Len(wh.payments) |->
        LET p == wh.payments[k]
            row == EventRow(p.payment_id, "chat_purchase", p.user_id, p.payment_at, p.amount)
        IN  IF /\ InWindow(p.payment_at, lookback_days)
               /\ p.payment_type = "order"
               /\ p.payment_source = "order"
               /\ p.payment_status = "completed"
               /\ p.amount > 0
               /\ p.plan_code # NULL /\ p.plan_code = "10"
            THEN Repeat(row, UnsentMultiplicity(L, {"chat_purchase"}, p.payment_id,
                                                row.gclid, row.msclkid, max_retries))
            ELSE <<>>])

\* variant of Originals: the status of the row is not tested
OriginalsMutant(L, u, platform) ==
    {i \in 1..Len(L) :
        /\ L[i].event_type # "refund"
        /\ L[i].user_id = u
        /\ L[i].platform = platform}

\* ranked_originals: the 'sent' non-refund rows of one (user_id, platform) partition
Originals(L, u, platform) ==
    {i \in 1..Len(L) :
        /\ L[i].status = "sent"
        /\ L[i].event_type # "refund"
        /\ L[i].user_id = u
        /\ L[i].platform = platform}

\* ROW_NUMBER() OVER (PARTITION BY user_id, platform ORDER BY conversion_time DESC) = 1:
\* the rows ROW_NUMBER may rank first. Rows with equal conversion_time are
\* ordered arbitrarily by the engine, so each of them can be the rn = 1 row.
RankOne(L, u, platform) ==
    {i \in Originals(L, u, platform) :
        \A j \in Originals(L, u, platform) : L[i].conversion_time >= L[j].conversion_time}

\* the partitions of ranked_originals a refund of the warehouse can join
Partitions(wh, L) ==
    {pr \in {wh.payments[k].user_id : k \in 1..Len(wh.payments)} \X Platforms :
        Originals(L, pr[1], pr[2]) # {}}

\* every way the engine can number the partitions
Rankings(wh, L) ==
    {f \in [Partitions(wh, L) -> 1..Len(L)] :
        \A pr \in Partitions(wh, L) : f[pr] \in RankOne(L, pr[1], pr[2])}

RefundRow(p, ro) ==
    [event_id |-> p.payment_id, event_type |-> "refund", user_id |-> p.user_id,
     conversion_time |-> p.payment_at, conversion_value |-> p.amount,
     original_event_id |-> ro.event_id, platform |-> ro.platform,
     click_id |-> ro.click_id, original_conversion_time |-> ro.conversion_time,
     original_conversion_action |-> ro.conversion_action]

\* variant of RefundLogJoin: only 'sent' rows are matched, 'retracted' ones not
RefundLogJoinMutant(L, id, platform) ==
    {i \in 1..Len(L) :
        /\ L[i].event_id = id
        /\ L[i].platform = platform
        /\ L[i].status = "sent"}

\* rows of refund_log the LEFT JOIN matches
RefundLogJoin(L, id, platform) ==
    {i \in 1..Len(L) :
        /\ L[i].event_id = id
        /\ L[i].platform = platform
        /\ L[i].status \in {"sent", "retracted"}}

\* the result of the refund query for one numbering rank of the partitions
RefundRows(wh, L, rank, lookback_days, max_retries) ==
    Flatten([k \in 1..Len(wh.payments) |->
        LET p == wh.payments[k]
            PlatformRow(platform) ==
                IF /\ <<p.user_id, platform>> \in DOMAIN rank
                   /\ RefundLogJoin(L, p.payment_id, platform) = {}
                   /\ ~OverRetried(L, {"refund"}, p.payment_id, platform, max_retries)
                THEN <<RefundRow(p, L[rank[<<p.user_id, platform>>]])>>
                ELSE <<>>
        IN  IF /\ InWindow(p.payment_at, lookback_days)
               /\ p.payment_type \in {"refund", "order_refund"}
               /\ p.amount < 0
            THEN PlatformRow(GOOGLE) \o PlatformRow(MICROSOFT)
            ELSE <<>>])

\* the results the refund query can return
get_unsent_refunds_query(wh, L, lookback_days, max_retries) ==
    {RefundRows(wh, L, rank, lookback_days, max_retries) : rank \in Rankings(wh, L)}

----------------------------------------------------------------------------
(* google_ads_client.py                                                    *)
(*                                                                         *)
(* A message is a tuple of strings.  What the platform answers to one      *)
(* batch is a record                                                       *)
(*   [kind, details, msg]                                                  *)
(* kind = "ok": a response without partial_failure_error;                  *)
(* kind = "partial": a response with partial_failure_error, its details a  *)
(*   sequence of [is_failure, errors], errors a sequence of                *)
(*   [path, message], path a sequence of [field_name, index];              *)
(* kind = "GoogleAdsException" / "Exception": the call raised, msg being   *)
(*   str(ex.failure) / str(ex).                                            *)

OK == <<"OK">>
NoMessage == <<"None">>

\* variant of _chunks: the last, shorter batch is left out
_chunksMutant(lst, n) ==
    [k \in 1..(Len(lst) \div n) |-> SubSeq(lst, (k - 1) * n + 1, k * n)]

\* _chunks(lst, n)
_chunks(lst, n) ==
    [k \in 1..((Len(lst) + n - 1) \div n) |->
        SubSeq(lst, (k - 1) * n + 1, Min(k * n, Len(lst)))]

\* errors[index] = message on a dict
DictSet(d, k, v) == [x \in (DOMAIN d) \cup {k} |-> IF x = k THEN v ELSE d[x]]

EmptyDict == [x \in {} |-> NULL]

\* the first element of the field path named conversions / conversion_adjustments
RECURSIVE IndexOfPath(_)
IndexOfPath(path) ==
    IF path = <<>> THEN [found |-> FALSE, index |-> 0]
    ELSE IF Head(path).field_name \in {"conversions", "conversion_adjustments"}
         THEN [found |-> TRUE, index |-> Head(path).index]
         ELSE IndexOfPath(Tail(path))

RECURSIVE ParseErrors(_, _)
ParseErrors(errs, errors) ==
    IF errs = <<>> THEN errors
    ELSE LET at == IndexOfPath(Head(errs).path)
         IN  ParseErrors(Tail(errs),
                IF at.found THEN DictSet(errors, at.index, Head(errs).message) ELSE errors)

RECURSIVE ParseDetails(_, _)
ParseDetails(details, errors) ==
    IF details = <<>> THEN errors
    ELSE ParseDetails(Tail(details),
            IF Head(details).is_failure
            THEN ParseErrors(Head(details).errors, errors)
            ELSE errors)

\* _parse_partial_failures(client, response): dict operation index -> message
_parse_partial_failures(response) ==
    IF response.kind # "partial" THEN EmptyDict
    ELSE ParseDetails(response.details, EmptyDict)

\* variant of GadsBatchResults: the failure indices read as 1-based
GadsBatchResultsMutant(ids, response) ==
    IF response.kind = "partial"
    THEN LET failure_errors == _parse_partial_failures(response)
         IN  [i \in 1..Len(ids) |->
                IF i \in DOMAIN failure_errors
                THEN <<ids[i], FALSE, failure_errors[i]>>
                ELSE <<ids[i], TRUE, OK>>]
    ELSE IF response.kind = "ok"
    THEN [i \in 1..Len(ids) |-> <<ids[i], TRUE, OK>>]
    ELSE [i \in 1..Len(ids) |-> <<ids[i], FALSE, response.msg>>]

\* the results one batch adds, from the platform's answer (the try block of the
\* batch loop); ids[i] is the event_id of the batch's i-th item, enumerate() is 0-based
GadsBatchResults(ids, response) ==
    IF response.kind = "partial"
    THEN LET failure_errors == _parse_partial_failures(response)
         IN  [i \in 1..Len(ids) |->
                IF (i - 1) \in DOMAIN failure_errors
                THEN <<ids[i], FALSE, failure_errors[i - 1]>>
                ELSE <<ids[i], TRUE, OK>>]
    ELSE IF response.kind = "ok"
    THEN [i \in 1..Len(ids) |-> <<ids[i], TRUE, OK>>]
    ELSE [i \in 1..Len(ids) |-> <<ids[i], FALSE, response.msg>>]

\* _get_conversion_action_resource: the resource name, or a raise (found = FALSE)
\* when the account has no action of that name
_get_conversion_action_resource(account, action_name) ==
    [found |-> action_name \in account, resource_name |-> <<"conversionActions", action_name>>]

\* The inner loop "for conv in batch" that resolves the conversion actions of a
\* batch through the cache; keys[i] is the cache key of the i-th item and
\* names[i] the action name looked up on a miss.
RECURSIVE ResolveBatch(_, _, _, _, _)
ResolveBatch(keys, names, conversion_action_cache, account, lookups) ==
    IF keys = <<>>
    THEN [raised |-> FALSE, cache |-> conversion_action_cache, lookups |-> lookups]
    ELSE IF Head(keys) \in DOMAIN conversion_action_cache
    THEN ResolveBatch(Tail(keys), Tail(names), conversion_action_cache, account, lookups)
    ELSE LET r == _get_conversion_action_resource(account, Head(names))
         IN  IF r.found
             THEN ResolveBatch(Tail(keys), Tail(names),
                               DictSet(conversion_action_cache, Head(keys), r.resource_name),
                               account, Append(lookups, Head(names)))
             ELSE [raised |-> TRUE, cache |-> conversion_action_cache,
                   lookups |-> Append(lookups, Head(names))]

\* The batch loop of upload_click_conversions / upload_conversion_retractions.
\* Result: raised (the ValueError of a failed resolution left the function),
\* results (what the function returned; nothing when it raised), partial (the
\* results accumulated when it raised), cache, submitted (the batches handed to
\* the platform), lookups (the action names searched on the platform),
\* messages (the conversions or adjustments of the requests handed to the
\* platform, each with the resource name its action resolved to).
RECURSIVE GadsBatchLoop(_, _, _, _, _)
GadsBatchLoop(batches, responses, account, k, acc) ==
    IF k > Len(batches) THEN acc
    ELSE LET batch == batches[k]
             res == ResolveBatch([i \in 1..Len(batch) |-> batch[i].key],
                                 [i \in 1..Len(batch) |-> batch[i].action_name],
                                 acc.cache, account, acc.lookups)
         IN  IF res.raised
             THEN [acc EXCEPT !.raised = TRUE, !.results = <<>>, !.partial = acc.results,
                              !.cache = res.cache, !.lookups = res.lookups]
             ELSE GadsBatchLoop(batches, responses, account, k + 1,
                    [acc EXCEPT
                        !.results = acc.results \o
                            GadsBatchResults([i \in 1..Len(batch) |-> batch[i].event_id],
                                             responses[k]),
                        !.cache = res.cache,
                        !.lookups = res.lookups,
                        !.submitted = Append(acc.submitted, k),
                        !.messages = acc.messages \o
                            [i \in 1..Len(batch) |->
                                [batch[i].message EXCEPT
                                    !.conversion_action = res.cache[batch[i].key]]]])

NewCall(conversion_action_cache) ==
    [raised |-> FALSE, results |-> <<>>, partial |-> <<>>,
     cache |-> conversion_action_cache, submitted |-> <<>>, lookups |-> <<>>,
     messages |-> <<>>]

\* hashing.py. A string is a sequence of characters; a domain name after the
\* '@' of an email is held as one element. None is the sequence NONE.
NONE == <<"None">>

\* dict.get(key): None when the dict has no such key
Get(d, key) == IF key \in DOMAIN d THEN d[key] ELSE NONE

\* str.lower() and str.upper(), character by character
LowerChar(c) ==
    CASE c = "A" -> "a" [] c = "B" -> "b" [] c = "C" -> "c"
      [] c = "Gmail.com" -> "gmail.com" [] c = "IT" -> "it"
      [] OTHER -> c

UpperChar(c) ==
    CASE c = "a" -> "A" [] c = "b" -> "B" [] c = "c" -> "C" [] c = "it" -> "IT"
      [] OTHER -> c

lower(str) == [i \in 1..Len(str) |-> LowerChar(str[i])]
upper(str) == [i \in 1..Len(str) |-> UpperChar(str[i])]

\* str.strip(): leading and trailing blanks removed
RECURSIVE lstrip(_)
lstrip(str) == IF str # <<>> /\ Head(str) = " " THEN lstrip(Tail(str)) ELSE str

RECURSIVE rstrip(_)
rstrip(str) ==
    IF str # <<>> /\ str[Len(str)] = " " THEN rstrip(SubSeq(str, 1, Len(str) - 1)) ELSE str

strip(str) == rstrip(lstrip(str))

\* the position of the first c in str, 0 when there is none
RECURSIVE Find(_, _, _)
Find(str, c, i) ==
    IF i > Len(str) THEN 0 ELSE IF str[i] = c THEN i ELSE Find(str, c, i + 1)

\* str.partition(sep): (before, sep, after), or (str, '', '') without sep
partition(str, sep) ==
    LET i == Find(str, sep, 1)
    IN  IF i = 0 THEN <<str, <<>>, <<>>>>
        ELSE <<SubSeq(str, 1, i - 1), <<sep>>, SubSeq(str, i + 1, Len(str))>>

\* str.split(sep)[0]
SplitFirst(str, sep) ==
    LET i == Find(str, sep, 1) IN IF i = 0 THEN str ELSE SubSeq(str, 1, i - 1)

\* str.replace(c, '')
Remove(str, c) == SelectSeq(str, LAMBDA x : x # c)

_GMAIL_DOMAINS == {<<"gmail.com">>, <<"googlemail.com">>}

\* _sha256_hex(value): the digest of the text, marked as a digest by its first
\* element, which no text has; different texts have different digests
_sha256_hex(value) == <<"sha256">> \o value

\* variant of normalize_and_hash_email: the normalized address is passed on
\* without being hashed
normalize_and_hash_emailMutant(email) ==
    IF email = NONE \/ email = <<>> \/ strip(email) = <<>> THEN NONE
    ELSE LET e == lower(strip(email))
             parts == partition(e, "@")
         IN  IF parts[2] = <<>> \/ parts[3] = <<>> THEN NONE ELSE e

\* normalize_and_hash_email(email) (hashing.py:18-38)
normalize_and_hash_email(email) ==
    IF email = NONE \/ email = <<>> \/ strip(email) = <<>> THEN NONE
    ELSE LET e == lower(strip(email))
             parts == partition(e, "@")
             local == parts[1]
             domain == parts[3]
         IN  IF parts[2] = <<>> \/ domain = <<>> THEN NONE
             ELSE IF domain \in _GMAIL_DOMAINS
                  THEN _sha256_hex(Remove(SplitFirst(local, "+"), ".") \o <<"@">> \o domain)
                  ELSE _sha256_hex(local \o <<"@">> \o domain)

\* normalize_and_hash_name(name) (hashing.py:41-50)
normalize_and_hash_name(name) ==
    IF name = NONE \/ name = <<>> \/ strip(name) = <<>> THEN NONE
    ELSE _sha256_hex(lower(strip(name)))

\* "if x and str(x).strip()" of the address fields
Present(x) == x # NONE /\ x # <<>> /\ strip(x) # <<>>

\* _build_user_identifiers(client, conv) (google_ads_client.py:67-117): the
\* list of identifiers; an absent attribute of an identifier is NONE
_build_user_identifiers(conv) ==
    LET hashed_email == normalize_and_hash_email(Get(conv, "email"))
        hashed_first == normalize_and_hash_name(Get(conv, "first_name"))
        hashed_last == normalize_and_hash_name(Get(conv, "last_name"))
        city == Get(conv, "city")
        state == Get(conv, "state")
        country == Get(conv, "country")
        zip_code == Get(conv, "zip_code")
    IN  (IF hashed_email # NONE
         THEN <<[kind |-> "email", hashed_email |-> hashed_email]>> ELSE <<>>)
        \o
        (IF hashed_first # NONE \/ hashed_last # NONE
         THEN <<[kind |-> "address",
                 hashed_first_name |-> hashed_first,
                 hashed_last_name |-> hashed_last,
                 city |-> IF Present(city) THEN strip(city) ELSE NONE,
                 state |-> IF Present(state) THEN strip(state) ELSE NONE,
                 country_code |-> IF Present(country) THEN upper(strip(country)) ELSE NONE,
                 postal_code |-> IF Present(zip_code) THEN strip(zip_code) ELSE NONE]>>
         ELSE <<>>)

\* _format_datetime(dt): the text of the time, which names the same instant
_format_datetime(dt) == <<"yyyy-mm-dd HH:MM:SS+00:00", dt>>

\* the ClickConversion built for a conversion (google_ads_client.py:158-170);
\* conversion_action is set from the cache in the batch loop
ClickConversion(conv) ==
    [conversion_action |-> NULL,
     gclid |-> conv.gclid,
     conversion_date_time |-> _format_datetime(conv.conversion_time),
     conversion_value |-> conv.value,
     order_id |-> conv.event_id,
     user_identifiers |-> _build_user_identifiers(conv)]

\* the ConversionAdjustment built for an adjustment
\* (google_ads_client.py:240-245); conversion_action is set from the cache in
\* the batch loop
ConversionAdjustment(adj) ==
    [conversion_action |-> NULL,
     adjustment_type |-> "RETRACTION",
     order_id |-> adj.original_event_id,
     adjustment_date_time |-> _format_datetime(adj.conversion_time)]

\* upload_click_conversions(client, conversions, conversion_action_cache):
\* the cache is keyed by event_type, the name comes from GADS_ACTION_MAP
upload_click_conversions(conversions, conversion_action_cache, account, responses) ==
    IF conversions = <<>> THEN NewCall(conversion_action_cache)
    ELSE GadsBatchLoop(
            _chunks([i \in 1..Len(conversions) |->
                        [event_id |-> conversions[i].event_id,
                         key |-> conversions[i].event_type,
                         action_name |-> GADS_ACTION_MAP[conversions[i].event_type],
                         message |-> ClickConversion(conversions[i])]],
                    GADS_BATCH_SIZE),
            responses, account, 1, NewCall(conversion_action_cache))

\* upload_conversion_retractions(client, adjustments, conversion_action_cache):
\* the cache is keyed by the action name of the original entry
gads_upload_conversion_retractions(adjustments, conversion_action_cache, account, responses) ==
    IF adjustments = <<>> THEN NewCall(conversion_action_cache)
    ELSE GadsBatchLoop(
            _chunks([i \in 1..Len(adjustments) |->
                        [event_id |-> adjustments[i].event_id,
                         key |-> adjustments[i].original_conversion_action,
                         action_name |-> adjustments[i].original_conversion_action,
                         message |-> ConversionAdjustment(adjustments[i])]],
                    GADS_BATCH_SIZE),
            responses, account, 1, NewCall(conversion_action_cache))

----------------------------------------------------------------------------
(* microsoft_ads_client.py                                                 *)
(*                                                                         *)
(* What requests.post gives for one batch is a record                      *)
(*   [kind, status_code, text, json_ok, details, message, msg]             *)
(* kind = "http": a response; text is response.text (a tuple of strings,   *)
(*   empty for an empty body), json_ok whether response.json() decodes,    *)
(*   details the list error.details of the body, each                      *)
(*   [has_index, index, errorMessage, propertyName] (NULL for a missing    *)
(*   key), message the string error.message of the body (NoMessage when    *)
(*   the body has none);                                                   *)
(* kind = "Timeout" / "Exception": requests.post raised, msg being str(ex) *)

JSONDecodeError == <<"JSONDecodeError">>

\* response.text[:200]
TextPrefix(text) == SubSeq(text, 1, Min(200, Len(text)))

\* failed_indices built from error.details: idx -> f"{prop}: {msg}"
RECURSIVE FailedIndices(_, _)
FailedIndices(details, failed_indices) ==
    IF details = <<>> THEN failed_indices
    ELSE LET detail == Head(details)
             msg == IF detail.errorMessage = NULL
                    THEN "Unknown validation error" ELSE detail.errorMessage
             prop == IF detail.propertyName = NULL THEN "" ELSE detail.propertyName
         IN  FailedIndices(Tail(details),
                IF detail.has_index
                THEN DictSet(failed_indices, detail.index, <<prop, ": ", msg>>)
                ELSE failed_indices)

AllRejected(ids, error_msg) == [i \in 1..Len(ids) |-> <<ids[i], FALSE, error_msg>>]
AllDelivered(ids) == [i \in 1..Len(ids) |-> <<ids[i], TRUE, OK>>]

\* variant of Msads200: an index beyond the batch rejects the last item of
\* the batch
Msads200Mutant(ids, response) ==
    IF response.text # <<>> /\ ~response.json_ok
    THEN AllRejected(ids, JSONDecodeError)
    ELSE LET error_details == IF response.text = <<>> THEN <<>> ELSE response.details
             failed_indices == FailedIndices(error_details, EmptyDict)
         IN  IF error_details # <<>>
             THEN [i \in 1..Len(ids) |->
                    IF (i - 1) \in DOMAIN failed_indices
                    THEN <<ids[i], FALSE, failed_indices[i - 1]>>
                    ELSE IF i = Len(ids) /\ \E k \in DOMAIN failed_indices : k >= Len(ids)
                    THEN <<ids[i], FALSE, <<"out of range">>>>
                    ELSE <<ids[i], TRUE, OK>>]
             ELSE AllDelivered(ids)

\* the status_code == 200 branch, shared by upload and retraction
Msads200(ids, response) ==
    IF response.text # <<>> /\ ~response.json_ok
    THEN AllRejected(ids, JSONDecodeError)
    ELSE LET error_details == IF response.text = <<>> THEN <<>> ELSE response.details
             failed_indices == FailedIndices(error_details, EmptyDict)
         IN  IF error_details # <<>>
             THEN [i \in 1..Len(ids) |->
                    IF (i - 1) \in DOMAIN failed_indices
                    THEN <<ids[i], FALSE, failed_indices[i - 1]>>
                    ELSE <<ids[i], TRUE, OK>>]
             ELSE AllDelivered(ids)

\* error_body.get('error', {}).get('message', response.text[:200])
MsadsErrorMessage(ids, response) ==
    IF response.text # <<>> /\ ~response.json_ok
    THEN AllRejected(ids, JSONDecodeError)
    ELSE AllRejected(ids,
            IF response.text # <<>> /\ response.message # NoMessage
            THEN response.message ELSE TextPrefix(response.text))

\* variant of MsadsUploadBatch: a timed-out batch reported as accepted
MsadsUploadBatchMutant(ids, response) ==
    IF response.kind = "Timeout" THEN AllDelivered(ids)
    ELSE IF response.kind = "Exception" THEN AllRejected(ids, response.msg)
    ELSE IF response.status_code = 200 THEN Msads200(ids, response)
    ELSE IF response.status_code = 400 THEN MsadsErrorMessage(ids, response)
    ELSE IF response.status_code = 401
    THEN AllRejected(ids, <<"CAPI authentication failed (invalid or expired token)">>)
    ELSE AllRejected(ids, <<"HTTP ", ToString(response.status_code), ": ">>
                            \o TextPrefix(response.text))

\* the results one batch adds in upload_offline_conversions
MsadsUploadBatch(ids, response) ==
    IF response.kind = "Timeout" THEN AllRejected(ids, <<"CAPI request timed out">>)
    ELSE IF response.kind = "Exception" THEN AllRejected(ids, response.msg)
    ELSE IF response.status_code = 200 THEN Msads200(ids, response)
    ELSE IF response.status_code = 400 THEN MsadsErrorMessage(ids, response)
    ELSE IF response.status_code = 401
    THEN AllRejected(ids, <<"CAPI authentication failed (invalid or expired token)">>)
    ELSE AllRejected(ids, <<"HTTP ", ToString(response.status_code), ": ">>
                            \o TextPrefix(response.text))

\* the results one batch adds in upload_conversion_retractions
MsadsRetractBatch(ids, response) ==
    IF response.kind \in {"Timeout", "Exception"} THEN AllRejected(ids, response.msg)
    ELSE IF response.status_code = 200 THEN Msads200(ids, response)
    ELSE IF response.status_code \in {400, 401} THEN MsadsErrorMessage(ids, response)
    ELSE AllRejected(ids, <<"HTTP ", ToString(response.status_code), ": ">>
                            \o TextPrefix(response.text))

\* _to_epoch(dt): the time as epoch seconds
_to_epoch(dt) == <<"epoch", dt>>

\* _build_event(conv): the CAPI event of a conversion
\* (microsoft_ads_client.py:42-67); userData has an msclkid only for a truthy
\* click id
_build_event(conv) ==
    [eventType |-> "custom",
     eventId |-> conv.event_id,
     eventName |-> conv.conversion_goal_name,
     eventTime |-> _to_epoch(conv.conversion_time),
     msclkid |-> IF conv.msclkid # NULL /\ conv.msclkid # "" THEN conv.msclkid ELSE NULL,
     value |-> conv.value,
     em |-> normalize_and_hash_email(Get(conv, "email"))]

\* the CAPI event upload_conversion_retractions builds for an adjustment
\* (microsoft_ads_client.py:209-227): value 0, the id of the refund as eventId
\* and inside transactionId
RetractionEvent(adj) ==
    [eventType |-> "custom",
     eventId |-> adj.event_id,
     eventName |-> adj.original_conversion_action,
     eventTime |-> _to_epoch(adj.conversion_time),
     msclkid |-> IF adj.click_id # NULL /\ adj.click_id # "" THEN adj.click_id ELSE NULL,
     value |-> 0,
     transactionId |-> <<"retract_", adj.event_id>>]

\* variant of MsadsCall: every batch is posted a second time
MsadsCallMutant(results, nbatches, messages) ==
    [raised |-> FALSE, results |-> results, partial |-> <<>>, cache |-> EmptyDict,
     submitted |-> [k \in 1..nbatches |-> k] \o [k \in 1..nbatches |-> k],
     lookups |-> <<>>, messages |-> messages \o messages]

\* what a Microsoft Ads call leaves: every batch is posted, nothing is raised
MsadsCall(results, nbatches, messages) ==
    [raised |-> FALSE, results |-> results, partial |-> <<>>, cache |-> EmptyDict,
     submitted |-> [k \in 1..nbatches |-> k], lookups |-> <<>>,
     messages |-> messages]

\* upload_offline_conversions(_unused_service, conversions)
upload_offline_conversions(conversions, responses) ==
    LET batches == _chunks(conversions, MSADS_BATCH_SIZE)
    IN  MsadsCall(Flatten([k \in 1..Len(batches) |->
            MsadsUploadBatch([i \in 1..Len(batches[k]) |-> batches[k][i].event_id],
                             responses[k])]), Len(batches),
                  [i \in 1..Len(conversions) |-> _build_event(conversions[i])])

\* upload_conversion_retractions(_unused_service, adjustments)
msads_upload_conversion_retractions(adjustments, responses) ==
    LET batches == _chunks(adjustments, MSADS_BATCH_SIZE)
    IN  MsadsCall(Flatten([k \in 1..Len(batches) |->
            MsadsRetractBatch([i \in 1..Len(batches[k]) |-> batches[k][i].event_id],
                              responses[k])]), Len(batches),
                  [i \in 1..Len(adjustments) |-> RetractionEvent(adjustments[i])])

----------------------------------------------------------------------------
(* bq_client.py and main.py *)

\* event.get('gclid') / event.get('msclkid') is truthy
Truthy(v) == v # NULL /\ v # ""

\* variant of split_by_platform: elif in place of the second if, an event with
\* both click ids goes to Google Ads only
split_by_platformMutant(events_) ==
    [google_events |-> SelectSeq(events_, LAMBDA e : Truthy(e.gclid)),
     microsoft_events |-> SelectSeq(events_, LAMBDA e : ~Truthy(e.gclid) /\ Truthy(e.msclkid))]

\* split_by_platform(events)
split_by_platform(events_) ==
    [google_events |-> SelectSeq(events_, LAMBDA e : Truthy(e.gclid)),
     microsoft_events |-> SelectSeq(events_, LAMBDA e : Truthy(e.msclkid))]

\* zip(a, b) stops at the shorter of the two
ZipLen(a, b) == Min(Len(a), Len(b))

\* variant of EventLogRow: the reason of a rejection is not recorded
EventLogRowMutant(event, result, platform) ==
    [event_id |-> result[1],
     event_type |-> event.event_type,
     platform |-> platform,
     click_id |-> IF platform = GOOGLE THEN event.gclid ELSE event.msclkid,
     conversion_time |-> event.conversion_time,
     conversion_value |-> event.conversion_value,
     conversion_action |-> IF platform = GOOGLE
                           THEN MapGet(GADS_ACTION_MAP, event.event_type)
                           ELSE MapGet(MSADS_GOAL_MAP, event.event_type),
     status |-> IF result[2] THEN "sent" ELSE "failed",
     api_response |-> result[3],
     error_message |-> NoMessage,
     original_event_id |-> NULL,
     user_id |-> event.user_id]

\* the row process_event_type logs for an event and its result tuple
EventLogRow(event, result, platform) ==
    [event_id |-> result[1],
     event_type |-> event.event_type,
     platform |-> platform,
     click_id |-> IF platform = GOOGLE THEN event.gclid ELSE event.msclkid,
     conversion_time |-> event.conversion_time,
     conversion_value |-> event.conversion_value,
     conversion_action |-> IF platform = GOOGLE
                           THEN MapGet(GADS_ACTION_MAP, event.event_type)
                           ELSE MapGet(MSADS_GOAL_MAP, event.event_type),
     status |-> IF result[2] THEN "sent" ELSE "failed",
     api_response |-> IF result[2] THEN result[3] ELSE NoMessage,
     error_message |-> IF ~result[2] THEN result[3] ELSE NoMessage,
     original_event_id |-> NULL,
     user_id |-> event.user_id]

\* variant of RefundLogRow: an accepted retraction is logged like an accepted
\* conversion
RefundLogRowMutant(refund, result, platform) ==
    [event_id |-> result[1],
     event_type |-> "refund",
     platform |-> platform,
     click_id |-> refund.click_id,
     conversion_time |-> refund.conversion_time,
     conversion_value |-> refund.conversion_value,
     conversion_action |-> refund.original_conversion_action,
     status |-> IF result[2] THEN "sent" ELSE "failed",
     api_response |-> IF result[2] THEN result[3] ELSE NoMessage,
     error_message |-> IF ~result[2] THEN result[3] ELSE NoMessage,
     original_event_id |-> refund.original_event_id,
     user_id |-> refund.user_id]

\* the row process_refunds logs for a refund and its result tuple
RefundLogRow(refund, result, platform) ==
    [event_id |-> result[1],
     event_type |-> "refund",
     platform |-> platform,
     click_id |-> refund.click_id,
     conversion_time |-> refund.conversion_time,
     conversion_value |-> refund.conversion_value,
     conversion_action |-> refund.original_conversion_action,
     status |-> IF result[2] THEN "retracted" ELSE "failed",
     api_response |-> IF result[2] THEN result[3] ELSE NoMessage,
     error_message |-> IF ~result[2] THEN result[3] ELSE NoMessage,
     original_event_id |-> refund.original_event_id,
     user_id |-> refund.user_id]

\* log_conversion_results(client, rows): insert_rows_json appends the rows, or
\* reports errors (insert_ok = FALSE), which are logged and nothing else
log_conversion_results(L, rows, insert_ok) ==
    IF rows = <<>> THEN L
    ELSE IF insert_ok THEN L \o rows
    ELSE L

\* summary[platform][key] += n
Count(results, ok) == Cardinality({i \in 1..Len(results) : results[i][2] = ok})

Bump(sm, platform, key, n) == [sm EXCEPT ![platform][key] = @ + n]

ZeroSummary ==
    [p \in Platforms |-> [sent |-> 0, failed |-> 0, retracted |-> 0]]

\* event_queries[cat], run against the warehouse and the log
event_queries(wh, L, c) ==
    CASE c = 1 -> get_unsent_trial_starts_query(wh, L, LOOKBACK_DAYS, MAX_RETRIES)
      [] c = 2 -> get_unsent_subscriptions_query(wh, L, LOOKBACK_DAYS, MAX_RETRIES,
                                                 SEND_RENEWAL_PAYMENTS)
      [] c = 3 -> get_unsent_document_purchases_query(wh, L, LOOKBACK_DAYS, MAX_RETRIES)
      [] c = 4 -> get_unsent_chat_purchases_query(wh, L, LOOKBACK_DAYS, MAX_RETRIES)

NumCategories == 4

\* event_queries[cat] built with skip_dedup = TRUE: dedup is disabled, every
\* category-matching event with a click id is returned, as if the log were empty
event_queries_skip_dedup(wh, c) == event_queries(wh, <<>>, c)

\* the refunds query built with skip_dedup = TRUE: without the log no refund
\* can be matched to an original, the only possible result is the empty one
get_unsent_refunds_query_skip_dedup == {<<>>}

----------------------------------------------------------------------------
(* What the platforms answer during a run *)

GadsOk == [kind |-> "ok", details |-> <<>>, msg |-> NoMessage]

GadsPartial(details) == [kind |-> "partial", details |-> details, msg |-> NoMessage]

GadsError(path, message) == [path |-> path, message |-> message]

GadsFailure(errs) == [is_failure |-> TRUE, errors |-> errs]

At(field, index) == [field_name |-> field, index |-> index]

GadsRaise(kind, msg) == [kind |-> kind, details |-> <<>>, msg |-> msg]

MsadsHttp(status, text, json_ok, details, message) ==
    [kind |-> "http", status_code |-> status, text |-> text, json_ok |-> json_ok,
     details |-> details, message |-> message, msg |-> NoMessage]

MsadsRaise(kind, msg) ==
    [kind |-> kind, status_code |-> 0, text |-> <<>>, json_ok |-> FALSE,
     details |-> <<>>, message |-> NoMessage, msg |-> msg]

MsadsDetail(has_index, index, errorMessage, propertyName) ==
    [has_index |-> has_index, index |-> index, errorMessage |-> errorMessage,
     propertyName |-> propertyName]

Body == <<"{..}">>

Msads200Ok == MsadsHttp(200, Body, TRUE, <<>>, NoMessage)

\* answers of Google Ads to a batch during a run: accepted, first item
\* rejected, the call raising
RunGadsResponses ==
    {GadsOk,
     GadsPartial(<<GadsFailure(<<GadsError(<<At("conversions", 0)>>, <<"invalid click id">>)>>)>>),
     GadsRaise("GoogleAdsException", <<"UNAUTHENTICATED">>)}

\* answers of Microsoft Ads to a batch during a run
RunMsadsResponses ==
    {Msads200Ok,
     MsadsHttp(200, Body, TRUE, <<MsadsDetail(TRUE, 0, "invalid click id", "msclkid")>>, NoMessage),
     MsadsRaise("Timeout", <<"timeout">>)}

\* the Google Ads account during a call: every action exists, or one of the
\* actions the call needs does not
RunAccounts(names) == {AllActions} \cup {AllActions \ {n} : n \in names}

NoCall ==
    [fn |-> "none", items |-> <<>>, cache |-> EmptyDict, account |-> {},
     responses |-> <<>>, done |-> TRUE, out |-> NewCall(EmptyDict)]

----------------------------------------------------------------------------
(* The run: main(), process_event_type(), process_refunds() *)

\* nothing observed yet: no selection, no category processed, no failure
NoHistory ==
    [run_start |-> 0, sel_at |-> 0, sel_cat |-> 0, insert_failed |-> FALSE,
     setup_failed |-> FALSE, cats |-> {}, cat_failed |-> {},
     refunds_attempted |-> FALSE, refunds_failed |-> FALSE,
     summarized |-> FALSE, lost |-> FALSE, attempts |-> 0, outcomes |-> 0,
     auth_failed |-> {}, transport_failed |-> {},
     interrupted_run |-> 0, interrupted_cat |-> 0, unlogged |-> {},
     switches |-> 0, other |-> <<>>, lookups |-> <<>>, handed |-> {},
     clients |-> FALSE]

\* exit status of a process ended by SIGKILL
KILLED == 137

Init ==
    /\ warehouse \in Warehouses
    /\ log = <<>>
    /\ pc = "idle"
    /\ cat = 1
    /\ events = <<>>
    /\ call = NoCall
    /\ cache = EmptyDict
    /\ summary = ZeroSummary
    /\ runs = 0
    /\ faults = 0
    /\ skip_dedup = FALSE
    /\ DRY_RUN = FALSE
    /\ exit_status = <<>>
    /\ hist = NoHistory

\* how steps 1-4 of main() end: "ok"; "config", validate_env_vars() calls
\* sys.exit(1); "client", get_client() / get_gads_client() raises and the
\* except of main.py:391 exits with 1; "no_log", ensure_log_table reports
\* that the log table is not available
SetupOutcomes ==
    {"ok"} \cup (IF faults < MaxFaults THEN {"config", "client", "no_log"} ELSE {})

\* variant of SubmitsToPlatform: DRY_RUN is not looked at
SubmitsToPlatformMutant(dry_run) == TRUE

\* whether the platform blocks of process_event_type and process_refunds call
\* the platform: under DRY_RUN they only log what they would send
\* (main.py:78-82, 131-135, 208-209, 260-261)
SubmitsToPlatform(dry_run) == ~dry_run

\* main() in a process that read DRY_RUN as dry_run: configuration, clients,
\* empty cache, zero summary (main.py:315-356); the platform clients are
\* acquired only when DRY_RUN is off (main.py:335-342)
Start(dry_run) ==
    /\ pc = "idle"
    /\ DRY_RUN' = dry_run
    /\ runs < MaxRuns
    /\ runs' = runs + 1
    /\ cache' = EmptyDict
    /\ summary' = ZeroSummary
    /\ cat' = 1
    /\ events' = <<>>
    /\ call' = NoCall
    /\ \E setup \in SetupOutcomes :
        /\ faults' = IF setup = "ok" THEN faults ELSE faults + 1
        /\ skip_dedup' = (setup = "no_log")
        /\ IF setup \in {"config", "client"}
           THEN /\ pc' = "idle"
                /\ exit_status' = <<1>>
           ELSE /\ pc' = "category"
                /\ exit_status' = <<>>
        /\ hist' = [NoHistory EXCEPT !.run_start = Len(log),
                                     !.insert_failed = hist.insert_failed,
                                     !.interrupted_run = hist.interrupted_run,
                                     !.interrupted_cat = hist.interrupted_cat,
                                     !.unlogged = hist.unlogged,
                                     !.switches = hist.switches,
                                     !.other = hist.other,
                                     !.setup_failed = (setup \in {"config", "client"}),
                                     !.clients = (~dry_run /\ setup \notin {"config", "client"})]
    /\ UNCHANGED <<warehouse, log>>

\* a run with DRY_RUN off
StartRun == Start(FALSE)

\* a run with DRY_RUN=true in its environment
StartDryRun == Start(TRUE)

\* where main() goes after category cat
AfterCategory(c) == IF c < NumCategories THEN "category" ELSE "refunds"

\* variant of AfterCategoryException: the exception of one category ends the
\* loop over the categories
AfterCategoryExceptionMutant(c) == "summary"

\* where main() goes when process_event_type raised in category c: the except
\* of the loop logs the exception and the loop goes on (main.py:364-366)
AfterCategoryException(c) == AfterCategory(c)

\* run_query(client, query) returns the rows, or raises while the fault budget
\* lasts (bq_client.py:43-46)
QueryOutcomes == {TRUE} \cup (IF faults < MaxFaults THEN {FALSE} ELSE {})

\* process_event_type: events = run_query(bq_client, query); return when empty.
\* A raise of run_query leaves process_event_type and is caught by the loop of
\* main() (main.py:364-366), which goes on with the next category.
Select ==
    /\ pc = "category"
    /\ \E query_ok \in QueryOutcomes :
        LET rows == IF ~query_ok THEN <<>>
                    ELSE IF skip_dedup THEN event_queries_skip_dedup(warehouse, cat)
                    ELSE event_queries(warehouse, log, cat)
        IN  /\ events' = rows
            /\ faults' = IF query_ok THEN faults ELSE faults + 1
            /\ hist' = [hist EXCEPT !.sel_at = Len(log),
                                    !.sel_cat = IF query_ok THEN cat ELSE 0,
                                    !.cats = @ \cup {cat},
                                    !.cat_failed = IF query_ok THEN @ ELSE @ \cup {cat}]
            /\ IF rows = <<>>
               THEN /\ pc' = IF query_ok THEN AfterCategory(cat)
                                        ELSE AfterCategoryException(cat)
                    /\ cat' = IF cat < NumCategories THEN cat + 1 ELSE cat
               ELSE /\ pc' = "gads_upload"
                    /\ cat' = cat
    /\ UNCHANGED <<warehouse, DRY_RUN, log, call, cache, summary, runs, skip_dedup, exit_status>>

GadsConversions(google_events) ==
    [i \in 1..Len(google_events) |->
        [event_id |-> google_events[i].event_id,
         gclid |-> google_events[i].gclid,
         conversion_time |-> google_events[i].conversion_time,
         value |-> google_events[i].conversion_value,
         event_type |-> google_events[i].event_type]]

MsadsConversions(microsoft_events) ==
    [i \in 1..Len(microsoft_events) |->
        [event_id |-> microsoft_events[i].event_id,
         msclkid |-> microsoft_events[i].msclkid,
         conversion_time |-> microsoft_events[i].conversion_time,
         value |-> microsoft_events[i].conversion_value,
         conversion_goal_name |-> MapGet(MSADS_GOAL_MAP, microsoft_events[i].event_type)]]

\* number of items of a call that were handed to the platform
SubmittedItems(items, out, n) ==
    Cardinality({i \in 1..Len(items) :
        \E j \in 1..Len(out.submitted) : out.submitted[j] = ((i - 1) \div n) + 1})

\* the platform refused the credentials of a batch: UNAUTHENTICATED raised by
\* the Google Ads service, HTTP 401 from Microsoft Ads
IsAuthError(response) ==
    \/ response.kind = "GoogleAdsException" /\ response.msg = <<"UNAUTHENTICATED">>
    \/ response.kind = "http" /\ response.status_code = 401

\* what a call adds to the record of the run
AfterCall(h, platform, items, responses, out, n) ==
    [h EXCEPT !.attempts = @ + SubmittedItems(items, out, n),
              !.outcomes = @ + Len(out.results),
              !.lookups = @ \o out.lookups,
              !.handed = @ \cup
                    {<<items[i].event_id, platform>> : i \in {x \in 1..Len(items) :
                        \E j \in 1..Len(out.submitted) :
                            out.submitted[j] = ((x - 1) \div n) + 1}},
              !.transport_failed = @ \cup
                    {<<items[i].event_id, platform>> : i \in {x \in 1..Len(items) :
                        \E j \in 1..Len(out.submitted) :
                            /\ out.submitted[j] = ((x - 1) \div n) + 1
                            /\ responses[out.submitted[j]].kind \in {"Timeout", "Exception"}}},
              !.auth_failed = @ \cup
                    (IF \E j \in 1..Len(out.submitted) : IsAuthError(responses[out.submitted[j]])
                     THEN {platform} ELSE {})]

NumBatches(items, n) == Len(_chunks(items, n))

\* the answers to the batches that were not submitted are not drawn
Undrawn(responses, out, default) ==
    \A k \in 1..Len(responses) :
        (\A j \in 1..Len(out.submitted) : out.submitted[j] # k) => responses[k] = default

\* variant of AfterGadsUpload: an exception of the Google Ads block leaves
\* process_event_type
AfterGadsUploadMutant(raised, c) == IF raised THEN AfterCategory(c) ELSE "gads_log"

\* where process_event_type goes after the Google Ads call: to the log rows, or,
\* when the call raised, through the except of main.py:126-127 to the
\* Microsoft Ads block
AfterGadsUpload(raised, c) == IF raised THEN "msads_upload" ELSE "gads_log"

\* process_event_type, Google Ads block: the upload call (main.py:77-96),
\* skipped when there is no event for the platform or under DRY_RUN; a raise
\* of the call is caught at main.py:126 and nothing is logged
GadsUpload ==
    /\ pc = "gads_upload"
    /\ LET google_events == split_by_platform(events).google_events
           conversions == GadsConversions(google_events)
       IN  IF google_events = <<>> \/ ~SubmitsToPlatform(DRY_RUN)
           THEN /\ pc' = "msads_upload"
                /\ UNCHANGED <<call, cache, faults, hist>>
           ELSE \E account \in RunAccounts({GADS_ACTION_MAP[conversions[i].event_type] :
                                                i \in 1..Len(conversions)}),
                   responses \in [1..NumBatches(conversions, GADS_BATCH_SIZE) -> RunGadsResponses] :
                LET out == upload_click_conversions(conversions, cache, account, responses)
                IN  /\ (account # AllActions) => (out.raised /\ faults < MaxFaults)
                    /\ Undrawn(responses, out, GadsOk)
                    /\ call' = [fn |-> "upload_click_conversions", items |-> conversions,
                                cache |-> cache, account |-> account,
                                responses |-> responses, done |-> TRUE, out |-> out]
                    /\ cache' = out.cache
                    /\ faults' = IF out.raised THEN faults + 1 ELSE faults
                    /\ hist' = AfterCall(hist, GOOGLE, conversions, responses, out, GADS_BATCH_SIZE)
                    /\ pc' = AfterGadsUpload(out.raised, cat)
    /\ UNCHANGED <<warehouse, DRY_RUN, log, cat, events, summary, runs, skip_dedup, exit_status>>

\* the rows and counters built from zip(events, results) (main.py:99-119)
EventLogRows(evs, results, platform) ==
    [i \in 1..ZipLen(evs, results) |-> EventLogRow(evs[i], results[i], platform)]

RefundLogRows(refunds, results, platform) ==
    [i \in 1..ZipLen(refunds, results) |-> RefundLogRow(refunds[i], results[i], platform)]

CountRows(rows, status) == Cardinality({i \in 1..Len(rows) : rows[i].status = status})

\* an insert may report errors while the fault budget lasts; it cannot succeed
\* in a run that found the log table unavailable
InsertOutcomes ==
    IF skip_dedup THEN {FALSE}
    ELSE {TRUE} \cup (IF faults < MaxFaults THEN {FALSE} ELSE {})

\* process_event_type, Google Ads block: log rows, counters, insert (main.py:98-121)
GadsLog ==
    /\ pc = "gads_log"
    /\ LET google_events == split_by_platform(events).google_events
           log_rows == EventLogRows(google_events, call.out.results, GOOGLE)
       IN  \E insert_ok \in InsertOutcomes :
            /\ log' = log_conversion_results(log, log_rows, insert_ok)
            /\ summary' = Bump(Bump(summary, GOOGLE, "sent", CountRows(log_rows, "sent")),
                               GOOGLE, "failed", CountRows(log_rows, "failed"))
            /\ faults' = IF insert_ok \/ skip_dedup THEN faults ELSE faults + 1
            /\ hist' = [hist EXCEPT !.insert_failed = @ \/ ~insert_ok,
                                    !.lost = @ \/ (~insert_ok /\ log_rows # <<>>)]
    /\ pc' = "msads_upload"
    /\ UNCHANGED <<warehouse, DRY_RUN, cat, events, call, cache, runs, skip_dedup, exit_status>>

\* process_event_type, Microsoft Ads block: the upload call (main.py:136-149)
MsadsUpload ==
    /\ pc = "msads_upload"
    /\ LET microsoft_events == split_by_platform(events).microsoft_events
           conversions == MsadsConversions(microsoft_events)
       IN  IF microsoft_events = <<>> \/ ~SubmitsToPlatform(DRY_RUN)
           THEN /\ pc' = AfterCategory(cat)
                /\ cat' = IF cat < NumCategories THEN cat + 1 ELSE cat
                /\ UNCHANGED <<call, hist>>
           ELSE \E responses \in [1..NumBatches(conversions, MSADS_BATCH_SIZE) -> RunMsadsResponses] :
                LET out == upload_offline_conversions(conversions, responses)
                IN  /\ call' = [fn |-> "upload_offline_conversions", items |-> conversions,
                                cache |-> EmptyDict, account |-> {},
                                responses |-> responses, done |-> TRUE, out |-> out]
                    /\ hist' = AfterCall(hist, MICROSOFT, conversions, responses, out,
                                         MSADS_BATCH_SIZE)
                    /\ pc' = "msads_log"
                    /\ cat' = cat
    /\ UNCHANGED <<warehouse, DRY_RUN, log, events, cache, summary, runs, faults, skip_dedup, exit_status>>

\* process_event_type, Microsoft Ads block: log rows, counters, insert (main.py:151-173)
MsadsLog ==
    /\ pc = "msads_log"
    /\ LET microsoft_events == split_by_platform(events).microsoft_events
           log_rows == EventLogRows(microsoft_events, call.out.results, MICROSOFT)
       IN  \E insert_ok \in InsertOutcomes :
            /\ log' = log_conversion_results(log, log_rows, insert_ok)
            /\ summary' = Bump(Bump(summary, MICROSOFT, "sent", CountRows(log_rows, "sent")),
                               MICROSOFT, "failed", CountRows(log_rows, "failed"))
            /\ faults' = IF insert_ok \/ skip_dedup THEN faults ELSE faults + 1
            /\ hist' = [hist EXCEPT !.insert_failed = @ \/ ~insert_ok,
                                    !.lost = @ \/ (~insert_ok /\ log_rows # <<>>)]
    /\ pc' = AfterCategory(cat)
    /\ cat' = IF cat < NumCategories THEN cat + 1 ELSE cat
    /\ UNCHANGED <<warehouse, DRY_RUN, events, call, cache, runs, skip_dedup, exit_status>>

\* process_refunds: refunds = run_query(bq_client, query); return when empty.
\* A raise of run_query is caught by main() (main.py:371-372), which goes on
\* with the summary.
RefundSelect ==
    /\ pc = "refunds"
    /\ \E query_ok \in QueryOutcomes :
        \E refunds \in (IF ~query_ok THEN {<<>>}
                        ELSE IF skip_dedup THEN get_unsent_refunds_query_skip_dedup
                        ELSE get_unsent_refunds_query(warehouse, log, LOOKBACK_DAYS, MAX_RETRIES)) :
            /\ events' = refunds
            /\ pc' = IF refunds = <<>> THEN "summary" ELSE "gads_retract"
            /\ faults' = IF query_ok THEN faults ELSE faults + 1
            /\ hist' = [hist EXCEPT !.sel_at = Len(log),
                                    !.sel_cat = IF query_ok THEN NumCategories + 1 ELSE 0,
                                    !.refunds_attempted = TRUE,
                                    !.refunds_failed = ~query_ok]
    /\ UNCHANGED <<warehouse, DRY_RUN, log, cat, call, cache, summary, runs, skip_dedup, exit_status>>

\* refunds of one platform (main.py:203-204)
PlatformRefunds(refunds, platform) == SelectSeq(refunds, LAMBDA r : r.platform = platform)

GadsAdjustments(google_refunds) ==
    [i \in 1..Len(google_refunds) |->
        [event_id |-> google_refunds[i].event_id,
         original_event_id |-> google_refunds[i].original_event_id,
         original_conversion_action |-> google_refunds[i].original_conversion_action,
         conversion_time |-> google_refunds[i].conversion_time,
         original_conversion_time |-> google_refunds[i].original_conversion_time,
         click_id |-> google_refunds[i].click_id]]

MsadsAdjustments(microsoft_refunds) ==
    [i \in 1..Len(microsoft_refunds) |->
        [event_id |-> microsoft_refunds[i].event_id,
         click_id |-> microsoft_refunds[i].click_id,
         original_conversion_action |-> microsoft_refunds[i].original_conversion_action,
         original_conversion_time |-> microsoft_refunds[i].original_conversion_time,
         conversion_time |-> microsoft_refunds[i].conversion_time]]

\* process_refunds, Google Ads block: the retraction call (main.py:211-225)
GadsRetract ==
    /\ pc = "gads_retract"
    /\ LET google_refunds == PlatformRefunds(events, GOOGLE)
           adjustments == GadsAdjustments(google_refunds)
       IN  IF google_refunds = <<>> \/ ~SubmitsToPlatform(DRY_RUN)
           THEN /\ pc' = "msads_retract"
                /\ UNCHANGED <<call, cache, faults, hist>>
           ELSE \E account \in RunAccounts({adjustments[i].original_conversion_action :
                                                i \in 1..Len(adjustments)}),
                   responses \in [1..NumBatches(adjustments, GADS_BATCH_SIZE) -> RunGadsResponses] :
                LET out == gads_upload_conversion_retractions(adjustments, cache, account, responses)
                IN  /\ (account # AllActions) => (out.raised /\ faults < MaxFaults)
                    /\ Undrawn(responses, out, GadsOk)
                    /\ call' = [fn |-> "gads_upload_conversion_retractions",
                                items |-> adjustments,
                                cache |-> cache, account |-> account,
                                responses |-> responses, done |-> TRUE, out |-> out]
                    /\ cache' = out.cache
                    /\ faults' = IF out.raised THEN faults + 1 ELSE faults
                    /\ hist' = AfterCall(hist, GOOGLE, adjustments, responses, out, GADS_BATCH_SIZE)
                    /\ pc' = IF out.raised THEN "msads_retract" ELSE "gads_retract_log"
    /\ UNCHANGED <<warehouse, DRY_RUN, log, cat, events, summary, runs, skip_dedup, exit_status>>

\* process_refunds, Google Ads block: log rows, counters, insert (main.py:227-250)
GadsRetractLog ==
    /\ pc = "gads_retract_log"
    /\ LET log_rows == RefundLogRows(PlatformRefunds(events, GOOGLE), call.out.results, GOOGLE)
       IN  \E insert_ok \in InsertOutcomes :
            /\ log' = log_conversion_results(log, log_rows, insert_ok)
            /\ summary' = Bump(Bump(summary, GOOGLE, "retracted", CountRows(log_rows, "retracted")),
                               GOOGLE, "failed", CountRows(log_rows, "failed"))
            /\ faults' = IF insert_ok \/ skip_dedup THEN faults ELSE faults + 1
            /\ hist' = [hist EXCEPT !.insert_failed = @ \/ ~insert_ok,
                                    !.lost = @ \/ (~insert_ok /\ log_rows # <<>>)]
    /\ pc' = "msads_retract"
    /\ UNCHANGED <<warehouse, DRY_RUN, cat, events, call, cache, runs, skip_dedup, exit_status>>

\* process_refunds, Microsoft Ads block: the retraction call (main.py:263-276)
MsadsRetract ==
    /\ pc = "msads_retract"
    /\ LET microsoft_refunds == PlatformRefunds(events, MICROSOFT)
           adjustments == MsadsAdjustments(microsoft_refunds)
       IN  IF microsoft_refunds = <<>> \/ ~SubmitsToPlatform(DRY_RUN)
           THEN /\ pc' = "summary"
                /\ UNCHANGED <<call, hist>>
           ELSE \E responses \in [1..NumBatches(adjustments, MSADS_BATCH_SIZE) -> RunMsadsResponses] :
                LET out == msads_upload_conversion_retractions(adjustments, responses)
                IN  /\ call' = [fn |-> "msads_upload_conversion_retractions",
                                items |-> adjustments,
                                cache |-> EmptyDict, account |-> {},
                                responses |-> responses, done |-> TRUE, out |-> out]
                    /\ hist' = AfterCall(hist, MICROSOFT, adjustments, responses, out,
                                         MSADS_BATCH_SIZE)
                    /\ pc' = "msads_retract_log"
    /\ UNCHANGED <<warehouse, DRY_RUN, log, cat, events, cache, summary, runs, faults, skip_dedup, exit_status>>

\* process_refunds, Microsoft Ads block: log rows, counters, insert (main.py:278-301)
MsadsRetractLog ==
    /\ pc = "msads_retract_log"
    /\ LET log_rows == RefundLogRows(PlatformRefunds(events, MICROSOFT), call.out.results, MICROSOFT)
       IN  \E insert_ok \in InsertOutcomes :
            /\ log' = log_conversion_results(log, log_rows, insert_ok)
            /\ summary' = Bump(Bump(summary, MICROSOFT, "retracted", CountRows(log_rows, "retracted")),
                               MICROSOFT, "failed", CountRows(log_rows, "failed"))
            /\ faults' = IF insert_ok \/ skip_dedup THEN faults ELSE faults + 1
            /\ hist' = [hist EXCEPT !.insert_failed = @ \/ ~insert_ok,
                                    !.lost = @ \/ (~insert_ok /\ log_rows # <<>>)]
    /\ pc' = "summary"
    /\ UNCHANGED <<warehouse, DRY_RUN, cat, events, call, cache, runs, skip_dedup, exit_status>>

\* variant of FinalExit: a failed count makes the run exit with 1
FinalExitMutant(sm) ==
    IF sm[GOOGLE].failed + sm[MICROSOFT].failed > 0 THEN <<1>> ELSE <<0>>

\* main(): a failed count in the summary only adds a warning; the run ends with
\* sys.exit(0) (main.py:384-389)
FinalExit(sm) == <<0>>

\* main(): the final summary and sys.exit(0) (main.py:374-389)
Summarize ==
    /\ pc = "summary"
    /\ pc' = "idle"
    /\ hist' = [hist EXCEPT !.summarized = TRUE]
    /\ exit_status' = FinalExit(summary)
    /\ UNCHANGED <<warehouse, DRY_RUN, log, cat, events, call, cache, summary, runs, faults, skip_dedup>>

Next ==
    \/ StartRun
    \/ Select
    \/ GadsUpload
    \/ GadsLog
    \/ MsadsUpload
    \/ MsadsLog
    \/ RefundSelect
    \/ GadsRetract
    \/ GadsRetractLog
    \/ MsadsRetract
    \/ MsadsRetractLog
    \/ Summarize

Spec == Init /\ [][Next]_vars

----------------------------------------------------------------------------
(* The run that can be interrupted: the process is killed between an       *)
(* upload call of process_event_type and the log write for its results     *)

\* the log after an interruption that comes before insert_rows_json
\* (main.py:96-121): the rows built for the results are lost with the process
InterruptedLog(L, log_rows) == L

\* the process dies after upload_click_conversions or
\* upload_offline_conversions returned and before log_conversion_results:
\* nothing of the run is left but the log; no summary is printed
Interrupt ==
    /\ pc \in {"gads_log", "msads_log"}
    /\ faults < MaxFaults
    /\ faults' = faults + 1
    /\ LET platform == IF pc = "gads_log" THEN GOOGLE ELSE MICROSOFT
           platform_events == IF pc = "gads_log"
                              THEN split_by_platform(events).google_events
                              ELSE split_by_platform(events).microsoft_events
           results == call.out.results
       IN  /\ log' = InterruptedLog(log, EventLogRows(platform_events, results, platform))
           /\ hist' = [hist EXCEPT
                          !.interrupted_run = runs,
                          !.interrupted_cat = cat,
                          !.unlogged = {<<results[i][1], platform>> :
                                          i \in {x \in 1..Len(results) : results[x][2]}}]
    /\ pc' = "idle"
    /\ cat' = 1
    /\ events' = <<>>
    /\ call' = NoCall
    /\ cache' = EmptyDict
    /\ summary' = ZeroSummary
    /\ exit_status' = <<KILLED>>
    /\ UNCHANGED <<warehouse, DRY_RUN, runs, skip_dedup>>

NextInterrupt == Next \/ Interrupt

SpecInterrupt == Init /\ [][NextInterrupt]_vars

----------------------------------------------------------------------------
(* Runs with and without DRY_RUN on one warehouse and one log               *)

InitDryRun ==
    /\ warehouse \in {WhRefund, WhTie}
    /\ log = <<>>
    /\ pc = "idle"
    /\ cat = 1
    /\ events = <<>>
    /\ call = NoCall
    /\ cache = EmptyDict
    /\ summary = ZeroSummary
    /\ runs = 0
    /\ faults = 0
    /\ skip_dedup = FALSE
    /\ DRY_RUN = FALSE
    /\ exit_status = <<>>
    /\ hist = NoHistory

NextDryRun == Next \/ StartDryRun

SpecDryRun == InitDryRun /\ [][NextDryRun]_vars

----------------------------------------------------------------------------
(* The run on the warehouses with refunds: one user with two refunds and a *)
(* later purchase, and one user with a single refund                       *)

InitRefunds ==
    /\ warehouse \in {WhTwoRefunds, WhTie}
    /\ log = <<>>
    /\ pc = "idle"
    /\ cat = 1
    /\ events = <<>>
    /\ call = NoCall
    /\ cache = EmptyDict
    /\ summary = ZeroSummary
    /\ runs = 0
    /\ faults = 0
    /\ skip_dedup = FALSE
    /\ DRY_RUN = FALSE
    /\ exit_status = <<>>
    /\ hist = NoHistory

SpecRefunds == InitRefunds /\ [][Next]_vars

----------------------------------------------------------------------------
(* Two processes of main() on one warehouse and one log, with no lock: one *)
(* process takes steps at a time, the state of the other one is kept in    *)
(* hist.other, and Switch hands the processor to the other process         *)

\* number of times the processor changes hands
MaxSwitches == 2

\* the state of its own that a process of main() has
Process(h) ==
    [pc |-> pc, cat |-> cat, events |-> events, call |-> call, cache |-> cache,
     summary |-> summary, skip_dedup |-> skip_dedup, DRY_RUN |-> DRY_RUN,
     exit_status |-> exit_status,
     hist |-> [h EXCEPT !.other = <<>>, !.switches = 0]]

\* a process that has not called main() yet
NewProcess ==
    [pc |-> "idle", cat |-> 1, events |-> <<>>, call |-> NoCall, cache |-> EmptyDict,
     summary |-> ZeroSummary, skip_dedup |-> FALSE, DRY_RUN |-> FALSE,
     exit_status |-> <<>>,
     hist |-> NoHistory]

\* the other process goes on where it was, or starts if there was none; the
\* warehouse and the log are the only state the two have in common
Switch ==
    /\ hist.switches < MaxSwitches
    /\ pc # "idle"
    /\ LET next == IF hist.other = <<>> THEN NewProcess ELSE hist.other[1]
       IN  /\ pc' = next.pc
           /\ cat' = next.cat
           /\ events' = next.events
           /\ call' = next.call
           /\ cache' = next.cache
           /\ summary' = next.summary
           /\ skip_dedup' = next.skip_dedup
           /\ DRY_RUN' = next.DRY_RUN
           /\ exit_status' = next.exit_status
           /\ hist' = [next.hist EXCEPT
                          !.insert_failed = @ \/ hist.insert_failed,
                          !.switches = hist.switches + 1,
                          !.other = <<Process(hist)>>]
    /\ UNCHANGED <<warehouse, log, runs, faults>>

\* the two processes are followed on the warehouses with one trial and with
\* refunds, and without faults of the environment
InitConcurrent ==
    /\ warehouse \in {WhBoth, WhRefund, WhTie}
    /\ log = <<>>
    /\ pc = "idle"
    /\ cat = 1
    /\ events = <<>>
    /\ call = NoCall
    /\ cache = EmptyDict
    /\ summary = ZeroSummary
    /\ runs = 0
    /\ faults = MaxFaults
    /\ skip_dedup = FALSE
    /\ DRY_RUN = FALSE
    /\ exit_status = <<>>
    /\ hist = NoHistory

NextConcurrent == Next \/ Switch

SpecConcurrent == InitConcurrent /\ [][NextConcurrent]_vars

----------------------------------------------------------------------------
(* The adapters on their own: one call on inputs drawn from bounded sets   *)

\* longest input list of a call
MaxItems == 3

ItemIds == <<"e1", "e2", "e3", "e4", "e5">>

ItemTypes == {"trial_start", "yearly_subscription"}

\* input lists of upload_click_conversions: the i-th item has the i-th id
GadsConversionLists ==
    UNION {{[i \in 1..n |->
                [event_id |-> ItemIds[i], gclid |-> "g", conversion_time |-> 20,
                 value |-> 0, event_type |-> types[i]]] :
            types \in [1..n -> ItemTypes]} : n \in 1..MaxItems}

GadsAdjustmentLists ==
    UNION {{[i \in 1..n |->
                [event_id |-> ItemIds[i], original_event_id |-> "o",
                 original_conversion_action |-> GADS_ACTION_MAP[types[i]],
                 conversion_time |-> 25, original_conversion_time |-> 20,
                 click_id |-> "g"]] :
            types \in [1..n -> ItemTypes]} : n \in 1..MaxItems}

MsadsConversionLists ==
    {[i \in 1..n |->
        [event_id |-> ItemIds[i], msclkid |-> "m", conversion_time |-> 20,
         value |-> 0, conversion_goal_name |-> "Trial Start DWH"]] : n \in 1..MaxItems}

MsadsAdjustmentLists ==
    {[i \in 1..n |->
        [event_id |-> ItemIds[i], click_id |-> "m",
         original_conversion_action |-> "Trial Start DWH",
         original_conversion_time |-> 20, conversion_time |-> 25]] : n \in 1..MaxItems}

\* answers of Google Ads to one batch
AdapterGadsResponses ==
    {GadsOk,
     \* one item named
     GadsPartial(<<GadsFailure(<<GadsError(<<At("conversions", 0)>>, <<"invalid click id">>)>>)>>),
     GadsPartial(<<GadsFailure(<<GadsError(<<At("operations", 0), At("conversion_adjustments", 1)>>,
                                           <<"too old">>)>>)>>),
     \* two items named, in one detail and in two
     GadsPartial(<<GadsFailure(<<GadsError(<<At("conversions", 1)>>, <<"too old">>),
                                 GadsError(<<At("conversions", 0)>>, <<"invalid click id">>)>>)>>),
     GadsPartial(<<GadsFailure(<<GadsError(<<At("conversions", 0)>>, <<"invalid click id">>)>>),
                   GadsFailure(<<GadsError(<<At("conversions", 1)>>, <<"too old">>)>>)>>),
     \* an index outside the batch
     GadsPartial(<<GadsFailure(<<GadsError(<<At("conversions", 2)>>, <<"too old">>)>>)>>),
     \* a detail that is no GoogleAdsFailure, an error without an operation index
     GadsPartial(<<[is_failure |-> FALSE, errors |-> <<>>]>>),
     GadsPartial(<<GadsFailure(<<GadsError(<<>>, <<"quota">>)>>)>>),
     GadsPartial(<<GadsFailure(<<GadsError(<<At("customer_id", 0)>>, <<"quota">>)>>)>>),
     \* the call raising
     GadsRaise("GoogleAdsException", <<"UNAUTHENTICATED">>),
     GadsRaise("Exception", <<"Deadline Exceeded">>)}

\* answers of Microsoft Ads to one batch
AdapterMsadsResponses ==
    {Msads200Ok,
     MsadsHttp(200, <<>>, FALSE, <<>>, NoMessage),
     MsadsHttp(200, <<"<html>">>, FALSE, <<>>, NoMessage),
     MsadsHttp(200, Body, TRUE, <<MsadsDetail(TRUE, 0, "invalid click id", "msclkid")>>, NoMessage),
     MsadsHttp(200, Body, TRUE, <<MsadsDetail(TRUE, 1, "too old", NULL),
                                  MsadsDetail(TRUE, 0, NULL, "msclkid")>>, NoMessage),
     MsadsHttp(200, Body, TRUE, <<MsadsDetail(TRUE, 2, "too old", "eventTime")>>, NoMessage),
     MsadsHttp(200, Body, TRUE, <<MsadsDetail(FALSE, 0, "bad request", NULL)>>, NoMessage),
     MsadsHttp(400, Body, TRUE, <<>>, <<"malformed payload">>),
     MsadsHttp(400, <<"<html>">>, FALSE, <<>>, NoMessage),
     MsadsHttp(400, <<>>, FALSE, <<>>, NoMessage),
     MsadsHttp(401, Body, TRUE, <<>>, <<"token expired">>),
     MsadsHttp(503, <<"unavailable">>, FALSE, <<>>, NoMessage),
     MsadsRaise("Timeout", <<"Read timed out">>),
     MsadsRaise("Exception", <<"Connection refused">>)}

AdapterAccounts ==
    {AllActions, AllActions \ {"Yearly Subscription DWH"}, AllActions \ {"Trial Start DWH"}}

AdapterCaches ==
    {EmptyDict,
     [k \in {"trial_start", "Trial Start DWH"} |-> <<"conversionActions", "Trial Start DWH">>]}

\* the batches of a call
BatchSize(fn) ==
    IF fn \in {"upload_click_conversions", "gads_upload_conversion_retractions"}
    THEN GADS_BATCH_SIZE ELSE MSADS_BATCH_SIZE

\* one answer per batch of the input list
GadsCalls(fn, lists) ==
    UNION {{[fn |-> fn, items |-> items, cache |-> c, account |-> account,
             responses |-> responses, done |-> FALSE, out |-> NewCall(EmptyDict)] :
                c \in AdapterCaches, account \in AdapterAccounts,
                responses \in [1..NumBatches(items, BatchSize(fn)) -> AdapterGadsResponses]} :
           items \in lists}

MsadsCalls(fn, lists) ==
    UNION {{[fn |-> fn, items |-> items, cache |-> EmptyDict, account |-> {},
             responses |-> responses, done |-> FALSE, out |-> NewCall(EmptyDict)] :
                responses \in [1..NumBatches(items, BatchSize(fn)) -> AdapterMsadsResponses]} :
           items \in lists}

AdapterCalls ==
    GadsCalls("upload_click_conversions", GadsConversionLists)
        \cup GadsCalls("gads_upload_conversion_retractions", GadsAdjustmentLists)
        \cup MsadsCalls("upload_offline_conversions", MsadsConversionLists)
        \cup MsadsCalls("msads_upload_conversion_retractions", MsadsAdjustmentLists)

\* the call of an adapter function on the inputs held in c
Apply(c) ==
    CASE c.fn = "upload_click_conversions" ->
            upload_click_conversions(c.items, c.cache, c.account, c.responses)
      [] c.fn = "gads_upload_conversion_retractions" ->
            gads_upload_conversion_retractions(c.items, c.cache, c.account, c.responses)
      [] c.fn = "upload_offline_conversions" ->
            upload_offline_conversions(c.items, c.responses)
      [] c.fn = "msads_upload_conversion_retractions" ->
            msads_upload_conversion_retractions(c.items, c.responses)

InitAdapter ==
    /\ warehouse = WhBoth
    /\ log = <<>>
    /\ pc = "adapter"
    /\ cat = 1
    /\ events = <<>>
    /\ call \in AdapterCalls
    /\ cache = EmptyDict
    /\ summary = ZeroSummary
    /\ runs = 0
    /\ faults = 0
    /\ skip_dedup = FALSE
    /\ DRY_RUN = FALSE
    /\ exit_status = <<>>
    /\ hist = NoHistory

AdapterCall ==
    /\ pc = "adapter"
    /\ ~call.done
    /\ call' = [call EXCEPT !.done = TRUE, !.out = Apply(call)]
    /\ UNCHANGED <<warehouse, DRY_RUN, log, pc, cat, events, cache, summary, runs, faults, hist, skip_dedup, exit_status>>

NextAdapter == AdapterCall

SpecAdapter == InitAdapter /\ [][NextAdapter]_vars

----------------------------------------------------------------------------
(* The adapters on conversions that carry PII: one upload of one conversion *)

\* email addresses: none, empty, blank, without '@', without a domain, without
\* a local part, a Gmail address in an unnormalized spelling, a plain address
Emails ==
    {NONE, <<>>, <<" ">>, <<"a", "b">>, <<"a", "@">>, <<"@", "x.org">>,
     <<" ", "A", ".", "b", "+", "c", "@", "Gmail.com", " ">>,
     <<"a", ".", "b", "@", "x.org">>}

Names == {NONE, <<" ">>, <<" ", "A", "b", " ">>}

Cities == {NONE, <<" ", "R", "o", "m", "e">>}

\* a conversion as the adapters document it, with the optional PII keys, and
\* with the keys of the event it was made from
PiiConversions ==
    {[event_id |-> "e1", event_type |-> "trial_start", user_id |-> "u1",
      gclid |-> "g", msclkid |-> "m", conversion_time |-> 20, value |-> 0,
      conversion_value |-> 0, conversion_goal_name |-> "Trial Start DWH",
      email |-> email, first_name |-> first_name, last_name |-> last_name,
      city |-> city, country |-> <<"it">>] :
        email \in Emails, first_name \in Names, last_name \in Names, city \in Cities}

PiiCalls ==
    {[fn |-> fn, items |-> <<conv>>, cache |-> EmptyDict,
      account |-> IF fn = "upload_click_conversions" THEN AllActions ELSE {},
      responses |-> IF fn = "upload_click_conversions" THEN <<GadsOk>> ELSE <<Msads200Ok>>,
      done |-> FALSE, out |-> NewCall(EmptyDict)] :
        fn \in {"upload_click_conversions", "upload_offline_conversions"},
        conv \in PiiConversions}

InitPii ==
    /\ warehouse = WhBoth
    /\ log = <<>>
    /\ pc = "pii"
    /\ cat = 1
    /\ call \in PiiCalls
    /\ events = call.items
    /\ cache = EmptyDict
    /\ summary = ZeroSummary
    /\ runs = 0
    /\ faults = 0
    /\ skip_dedup = FALSE
    /\ DRY_RUN = FALSE
    /\ exit_status = <<>>
    /\ hist = NoHistory

\* the upload and the log rows process_event_type writes for its results
PiiCall ==
    /\ pc = "pii"
    /\ ~call.done
    /\ LET out == Apply(call)
           platform == IF call.fn = "upload_click_conversions" THEN GOOGLE ELSE MICROSOFT
       IN  /\ call' = [call EXCEPT !.done = TRUE, !.out = out]
           /\ log' = log_conversion_results(log, EventLogRows(events, out.results, platform),
                                            TRUE)
    /\ UNCHANGED <<warehouse, DRY_RUN, pc, cat, events, cache, summary, runs, faults, hist,
                   skip_dedup, exit_status>>

NextPii == PiiCall

SpecPii == InitPii /\ [][NextPii]_vars

----------------------------------------------------------------------------
(* Properties of the delivery log and of the selection                     *)

Ids(rows) == {rows[i].event_id : i \in 1..Len(rows)}

\* number of log rows of (event_id, platform) with a status
LogCount(id, platform, status) ==
    Cardinality({i \in 1..Len(log) :
        log[i].event_id = id /\ log[i].platform = platform /\ log[i].status = status})

LoggedIds == {log[i].event_id : i \in 1..Len(log)}

\* the click id of a user for a platform
ClickId(u, platform) == IF platform = GOOGLE THEN Gclid(u) ELSE Msclkid(u)

\* the in-window events of the warehouse that belong to category c
InCategory(wh, c) ==
    CASE c = 1 ->
            {[event_id |-> wh.trial[k].event_id, user_id |-> wh.trial[k].user_id] :
                k \in {j \in 1..Len(wh.trial) :
                    wh.trial[j].trial_started_at >= CurrentTime - LOOKBACK_DAYS}}
      [] OTHER ->
            {[event_id |-> wh.payments[k].payment_id, user_id |-> wh.payments[k].user_id] :
                k \in {j \in 1..Len(wh.payments) :
                    LET p == wh.payments[j]
                    IN  /\ p.payment_at >= CurrentTime - LOOKBACK_DAYS
                        /\ p.payment_status = "completed"
                        /\ p.amount > 0
                        /\ CASE c = 2 -> /\ p.payment_source = "subscription"
                                         /\ \/ p.payment_type = "initial_subscription"
                                            \/ (SEND_RENEWAL_PAYMENTS /\ p.payment_type = "renewal")
                             [] c = 3 -> /\ p.payment_source = "order"
                                         /\ p.payment_type = "order"
                                         /\ p.plan_code # "10"
                             [] c = 4 -> /\ p.payment_source = "order"
                                         /\ p.payment_type = "order"
                                         /\ p.plan_code = "10"}}

\* the log has not changed since the rows in events were selected
JustSelected(cats) == hist.sel_cat \in cats /\ hist.sel_at = Len(log)

\* C1: when every log write succeeded, the log holds at most one 'sent' row
\* per (event, platform).
C1_AtMostOneSent ==
    ~hist.insert_failed =>
        \A id \in LoggedIds, platform \in Platforms : LogCount(id, platform, "sent") <= 1

\* C2: the number of 'failed' rows of an (event, platform) never exceeds
\* MAX_RETRIES.
C2_FailedWithinCeiling ==
    \A id \in LoggedIds, platform \in Platforms :
        LogCount(id, platform, "failed") <= MAX_RETRIES

\* an event is eligible for a platform: click id, no 'sent' row, fewer than
\* MAX_RETRIES 'failed' rows
Eligible(e, platform) ==
    /\ ClickId(e.user_id, platform) # NULL
    /\ LogCount(e.event_id, platform, "sent") = 0
    /\ LogCount(e.event_id, platform, "failed") < MAX_RETRIES

\* C3: an in-window event of a non-refund category is returned by the
\* selector, which reads the log, exactly when it is eligible for at least one
\* platform.
C3_SelectedIffEligible ==
    (JustSelected(1..NumCategories) /\ ~skip_dedup) =>
        \A e \in InCategory(warehouse, hist.sel_cat) :
            (e.event_id \in Ids(events)) <=> (\E platform \in Platforms : Eligible(e, platform))

\* C3 witness: a selection that leaves out an event which has a click id for a
\* platform, is not 'sent' there and has reached the retry ceiling there,
\* while another selection of the run returned an event
C3_Witness ==
    /\ JustSelected(1..NumCategories)
    /\ ~skip_dedup
    /\ \E e \in InCategory(warehouse, hist.sel_cat), platform \in Platforms :
        /\ e.event_id \notin Ids(events)
        /\ ClickId(e.user_id, platform) # NULL
        /\ LogCount(e.event_id, platform, "sent") = 0
        /\ LogCount(e.event_id, platform, "failed") >= MAX_RETRIES

\* C4: a run appends no 'sent' or 'retracted' row for an (event, platform)
\* that already had such a row when the run started: a re-run submits only
\* what is still failed or unsent.
C4_RerunSendsOnlyUnsent ==
    \A i \in (hist.run_start + 1)..Len(log) :
        log[i].status \in {"sent", "retracted"} =>
            \A j \in 1..hist.run_start :
                ~ /\ log[j].event_id = log[i].event_id
                  /\ log[j].platform = log[i].platform
                  /\ log[j].status \in {"sent", "retracted"}

\* C10: the original matched to a refund is the one latest 'sent' non-refund
\* row of the refund's user on that platform: every row of another event of
\* that user and platform is strictly older, so the match is determined by
\* the log.
C10_RefundMatchesUniqueLatest ==
    JustSelected({NumCategories + 1}) =>
        \A r \in 1..Len(events) :
            \A i \in 1..Len(log) :
                (/\ log[i].status = "sent"
                 /\ log[i].event_type # "refund"
                 /\ log[i].user_id = events[r].user_id
                 /\ log[i].platform = events[r].platform
                 /\ log[i].event_id # events[r].original_event_id)
                => log[i].conversion_time < events[r].original_conversion_time

----------------------------------------------------------------------------
(* Properties of an adapter call                                            *)

GadsFns == {"upload_click_conversions", "gads_upload_conversion_retractions"}
MsadsFns == {"upload_offline_conversions", "msads_upload_conversion_retractions"}

\* the call was made and returned a result list
Returned == call.done /\ call.fn \in GadsFns \cup MsadsFns /\ ~call.out.raised

\* the batch (1-based) and the index inside its batch (0-based) of input position i
BatchOf(i) == ((i - 1) \div BatchSize(call.fn)) + 1
IndexOf(i) == (i - 1) % BatchSize(call.fn)
BatchLen(k) == Cardinality({i \in 1..Len(call.items) : BatchOf(i) = k})
Positions == 1..Len(call.items)

\* the operation indices a Google Ads partial failure names, with their messages
GadsNamed(response) ==
    {<<response.details[d].errors[e].path[p].index, response.details[d].errors[e].message>> :
        <<d, e, p>> \in
            {t \in (1..Len(response.details)) \X (1..2) \X (1..2) :
                /\ response.details[t[1]].is_failure
                /\ t[2] <= Len(response.details[t[1]].errors)
                /\ t[3] <= Len(response.details[t[1]].errors[t[2]].path)
                /\ response.details[t[1]].errors[t[2]].path[t[3]].field_name
                        \in {"conversions", "conversion_adjustments"}}}

\* the batch indices a Microsoft Ads error list names, with their messages
MsadsNamed(response) ==
    {<<response.details[d].index, response.details[d].errorMessage>> :
        d \in {x \in 1..Len(response.details) : response.details[x].has_index}}

Named(response) == IF call.fn \in GadsFns THEN GadsNamed(response) ELSE MsadsNamed(response)

\* the answer is a partial failure
IsPartial(response) ==
    IF call.fn \in GadsFns
    THEN response.kind = "partial"
    ELSE /\ response.kind = "http"
         /\ response.status_code = 200
         /\ response.text # <<>>
         /\ response.json_ok
         /\ response.details # <<>>

\* a partial failure that names a set of indices of a batch of n items, each
\* once and with a message
NamesIndices(response, n) ==
    /\ IsPartial(response)
    /\ Named(response) # {}
    /\ \A x \in Named(response) : x[1] \in 0..(n - 1) /\ x[2] # NULL
    /\ \A x, y \in Named(response) : x[1] = y[1] => x = y
    /\ call.fn \in GadsFns =>
            \A d \in 1..Len(response.details) :
                /\ response.details[d].is_failure
                /\ \A e \in 1..Len(response.details[d].errors) :
                        \E q \in 1..Len(response.details[d].errors[e].path) :
                            response.details[d].errors[e].path[q].field_name
                                \in {"conversions", "conversion_adjustments"}
    /\ call.fn \in MsadsFns =>
            \A d \in 1..Len(response.details) : response.details[d].has_index

\* the message of a result carries the platform's message m
Carries(message, m) ==
    IF call.fn \in GadsFns THEN message = m ELSE Len(message) = 3 /\ message[3] = m

\* C5: for a batch of N items answered by a partial failure naming the set F
\* of batch indices, the items at the positions in F are Rejected with the
\* platform's message for their index and all others are Delivered with no
\* failure message (so N - |F| Delivered and |F| Rejected).
C5_PartialFailureDecoding ==
    Returned =>
        \A i \in Positions :
            LET response == call.responses[BatchOf(i)]
                result == call.out.results[i]
            IN  NamesIndices(response, BatchLen(BatchOf(i))) =>
                    /\ result[1] = call.items[i].event_id
                    /\ IF \E x \in Named(response) : x[1] = IndexOf(i)
                       THEN /\ result[2] = FALSE
                            /\ \E x \in Named(response) :
                                    x[1] = IndexOf(i) /\ Carries(result[3], x[2])
                       ELSE result[2] = TRUE /\ result[3] = OK

\* C5 witness: a returned call with a batch of two items of which the partial
\* failure names the second only
C5_Witness ==
    /\ Returned
    /\ \E i \in Positions :
        LET response == call.responses[BatchOf(i)]
        IN  /\ BatchLen(BatchOf(i)) = 2
            /\ NamesIndices(response, 2)
            /\ {x[1] : x \in Named(response)} = {1}
            /\ IndexOf(i) = 1
            /\ call.out.results[i][2] = FALSE
            /\ call.out.results[i - 1][2] = TRUE

\* the call to the platform failed as a whole
TotalFailure(response) ==
    IF call.fn \in GadsFns
    THEN response.kind \in {"GoogleAdsException", "Exception"}
    ELSE \/ response.kind \in {"Timeout", "Exception"}
         \/ response.kind = "http" /\ response.status_code # 200
         \/ response.kind = "http" /\ response.text # <<>> /\ ~response.json_ok

\* C6: when the platform call of a batch fails as a whole, every item of the
\* batch is Rejected, all with one and the same message, and none Delivered.
C6_TotalFailureRejectsBatch ==
    Returned =>
        \A i \in Positions :
            TotalFailure(call.responses[BatchOf(i)]) =>
                /\ call.out.results[i][2] = FALSE
                /\ \A j \in Positions :
                        BatchOf(j) = BatchOf(i) => call.out.results[j][3] = call.out.results[i][3]

\* C6 witness: a Microsoft Ads upload of two batches, the first timing out
\* and the second accepted
C6_Witness ==
    /\ Returned
    /\ call.fn = "upload_offline_conversions"
    /\ Len(call.responses) = 2
    /\ call.responses[1].kind = "Timeout"
    /\ call.responses[2] = Msads200Ok
    /\ call.out.results[1][2] = FALSE
    /\ call.out.results[Len(call.items)][2] = TRUE

\* the answer has an unexpected shape: a partial failure from which no
\* operation index can be read
UnexpectedShape(response) == IsPartial(response) /\ Named(response) = {}

\* C7: a batch answered with an unexpected shape is Rejected as a whole; none
\* of its items is reported Delivered.
C7_UnexpectedShapeRejectsBatch ==
    Returned =>
        \A i \in Positions :
            UnexpectedShape(call.responses[BatchOf(i)]) => call.out.results[i][2] = FALSE

\* the conversion action an item of a Google Ads call uses can be resolved
Resolvable(item) ==
    IF call.fn = "upload_click_conversions"
    THEN item.event_type \in DOMAIN call.cache \/ GADS_ACTION_MAP[item.event_type] \in call.account
    ELSE \/ item.original_conversion_action \in DOMAIN call.cache
         \/ item.original_conversion_action \in call.account

\* batch k of the call was handed to the platform
Submitted(k) == \E j \in 1..Len(call.out.submitted) : call.out.submitted[j] = k

\* the call returned an outcome for input position i
HasOutcome(i) ==
    \E j \in 1..Len(call.out.results) : call.out.results[j][1] = call.items[i].event_id

\* C8: a failure in one batch of a call neither discards the outcomes of the
\* batches already submitted nor keeps the other batches from being
\* submitted: every submitted batch has its outcomes in the result, and a
\* batch is left out only for a failure of its own.
C8_BatchFailureIsIsolated ==
    (call.done /\ call.fn \in GadsFns \cup MsadsFns) =>
        \A i \in Positions :
            /\ Submitted(BatchOf(i)) => HasOutcome(i)
            /\ ~Submitted(BatchOf(i)) =>
                    \E j \in Positions :
                        /\ BatchOf(j) = BatchOf(i)
                        /\ call.fn \in GadsFns
                        /\ ~Resolvable(call.items[j])

\* C9: when a conversion action of a Google Ads call cannot be resolved, the
\* items of the call that use a resolvable action still get an outcome.
C9_OnlyAffectedItemsFail ==
    (call.done /\ call.fn \in GadsFns) =>
        \A i \in Positions : Resolvable(call.items[i]) => HasOutcome(i)

----------------------------------------------------------------------------
(* Properties of refund processing                                         *)

\* the in-window refunds of the warehouse
Refunds(wh) ==
    {wh.payments[k] : k \in {j \in 1..Len(wh.payments) :
        /\ wh.payments[j].payment_at >= CurrentTime - LOOKBACK_DAYS
        /\ wh.payments[j].payment_type \in {"refund", "order_refund"}
        /\ wh.payments[j].amount < 0}}

\* the refund query returned refund id for platform
Returns(id, platform) ==
    \E r \in 1..Len(events) : events[r].event_id = id /\ events[r].platform = platform

\* C11: a refund is not returned for a platform once the log holds a 'sent' or
\* 'retracted' entry of (refund, platform) or MAX_RETRIES 'failed' ones; the
\* log never holds more than one 'retracted' entry nor more than MAX_RETRIES
\* 'failed' entries per (refund, platform).
C11_RefundExcludedOnceSettled ==
    \A p \in Refunds(warehouse), platform \in Platforms :
        /\ JustSelected({NumCategories + 1}) =>
                ((\/ LogCount(p.payment_id, platform, "sent") > 0
                  \/ LogCount(p.payment_id, platform, "retracted") > 0
                  \/ LogCount(p.payment_id, platform, "failed") >= MAX_RETRIES)
                 => ~Returns(p.payment_id, platform))
        /\ LogCount(p.payment_id, platform, "retracted") <= 1
        /\ LogCount(p.payment_id, platform, "failed") <= MAX_RETRIES

\* C11 witness: the refund query has just run, the user of a refund has a
\* 'sent' original on the platform, the refund is at the retry ceiling there
\* and was left out
C11_Witness ==
    /\ JustSelected({NumCategories + 1})
    /\ \E p \in Refunds(warehouse), platform \in Platforms :
        /\ Originals(log, p.user_id, platform) # {}
        /\ LogCount(p.payment_id, platform, "failed") = MAX_RETRIES
        /\ ~Returns(p.payment_id, platform)

\* the log holds a 'sent' entry of a non-refund event of user u on the platform
HasSentOriginal(u, platform) ==
    \E i \in 1..Len(log) :
        /\ log[i].user_id = u
        /\ log[i].platform = platform
        /\ log[i].status = "sent"
        /\ log[i].event_type # "refund"

RetractFns == {"gads_upload_conversion_retractions", "msads_upload_conversion_retractions"}

\* C12: a refund whose user has no 'sent' non-refund entry on any platform is
\* not returned by the refund query, is in no retraction call and has no log
\* entry (so it is counted nowhere).
C12_UnmatchedRefundIsIgnored ==
    \A p \in Refunds(warehouse) :
        (\A platform \in Platforms : ~HasSentOriginal(p.user_id, platform)) =>
            /\ \A i \in 1..Len(log) : log[i].event_id # p.payment_id
            /\ JustSelected({NumCategories + 1}) =>
                    \A platform \in Platforms : ~Returns(p.payment_id, platform)
            /\ call.fn \in RetractFns =>
                    \A i \in 1..Len(call.items) : call.items[i].event_id # p.payment_id

\* C12 witness: refund processing of a run with the log available is over, the
\* purchases of the refund's user were submitted and rejected, so the refund
\* has no original; the run recorded no refund failure
C12_Witness ==
    /\ pc = "summary"
    /\ ~skip_dedup
    /\ hist.sel_cat = NumCategories + 1
    /\ \E p \in Refunds(warehouse) :
        /\ \A platform \in Platforms : ~HasSentOriginal(p.user_id, platform)
        /\ \E i \in 1..Len(log) : log[i].user_id = p.user_id /\ log[i].status = "failed"
        /\ events = <<>>

----------------------------------------------------------------------------
(* Properties of a run as a whole                                          *)

\* the ids of the selected events that carry a click id for the platform
WithClickId(platform) ==
    {events[i].event_id : i \in {j \in 1..Len(events) :
        ClickId(events[j].user_id, platform) # NULL}}

C14_AppendOnlyOnePerAttempt ==
    [][/\ Len(log') >= Len(log)
       /\ SubSeq(log', 1, Len(log)) = log
       /\ (pc = "summary" /\ ~skip_dedup) => (Len(log) - hist.run_start = hist.attempts)]_vars


\* The outcomes the summary of the run counts as failed, over both platforms.
FailedCount == summary[GOOGLE].failed + summary[MICROSOFT].failed

\* C15: a run with the log available in which the insert of outcome rows
\* reported errors does not end as if the outcomes were logged: the failure
\* shows in what the run reports, as a failed category, a failed count or a
\* non-zero exit status.
C15_LogWriteFailureSurfaced ==
    (pc = "idle" /\ runs > 0 /\ ~skip_dedup /\ hist.lost) =>
        \/ hist.cat_failed # {}
        \/ hist.refunds_failed
        \/ FailedCount > 0
        \/ exit_status # <<0>>

\* the run got past its setup and has ended
RunEnded == pc = "idle" /\ runs > 0 /\ ~hist.setup_failed

\* C16: once a run is past its categories, all four categories were processed,
\* whichever of them raised, and a run that ends after its setup has reached
\* the summary.
C16_CategoryFailureIsIsolated ==
    /\ (pc \in {"refunds", "summary"} \/ RunEnded) => hist.cats = 1..NumCategories
    /\ RunEnded => hist.summarized

\* a run in which the first category raised has processed the other three and
\* printed its summary
C16_Witness ==
    /\ RunEnded
    /\ 1 \in hist.cat_failed
    /\ hist.cats = 1..NumCategories
    /\ hist.summarized

\* C17: refund processing is attempted in a run only when none of the four
\* categories before it raised, and a run whose refund processing raised still
\* reaches the summary.
C17_RefundsOnlyAfterCleanCategories ==
    /\ hist.refunds_attempted => hist.cat_failed = {}
    /\ (RunEnded /\ hist.refunds_failed) => hist.summarized

\* C18 as stated: every run that ends has printed the summary, and with a
\* failed count in it the exit status is still 0.
C18_EveryRunSummarizes ==
    (pc = "idle" /\ runs > 0) =>
        /\ hist.summarized
        /\ FailedCount > 0 => exit_status = <<0>>

\* C18: a run that got past its setup prints the summary when it ends and
\* exits with 0, with or without a failed count; a run that failed in its
\* setup exits with 1 and prints no summary.
C18_SummaryUnlessSetupFails ==
    /\ RunEnded => (hist.summarized /\ exit_status = <<0>>)
    /\ (pc = "idle" /\ runs > 0 /\ hist.setup_failed) =>
           (~hist.summarized /\ exit_status = <<1>>)

\* a run has ended with status 0 and a failed count in its summary
C18_Witness ==
    /\ RunEnded
    /\ hist.summarized
    /\ FailedCount > 0
    /\ exit_status = <<0>>

\* C19: the exit status is 1 only for a run that failed in its setup, a run
\* that got past its setup ends with 0 whatever failed in its categories or
\* refunds, and no call to a platform adapter leaves the adapter by an
\* exception.
C19_OnlySetupIsFatal ==
    /\ (pc = "idle" /\ exit_status = <<1>>) => hist.setup_failed
    /\ RunEnded => exit_status = <<0>>
    /\ (call.fn # "none" /\ call.done) => ~call.out.raised

\* the positions of a run at which a platform is called
UploadSteps(platform) ==
    IF platform = GOOGLE THEN {"gads_upload", "gads_retract"}
    ELSE {"msads_upload", "msads_retract"}

\* C20: once a batch of a run was refused for its credentials, nothing more is
\* handed to that platform in the run: the refused batch is the last one of
\* its call, no later call of the run hands items to the platform, and the
\* summary of the run counts a failure for the platform.
C20_AuthErrorStopsPlatform ==
    [][/\ \A j \in 1..Len(call'.out.submitted) :
              IsAuthError(call'.responses[call'.out.submitted[j]])
                  => j = Len(call'.out.submitted)
       /\ \A platform \in hist.auth_failed :
              pc \in UploadSteps(platform) => hist'.attempts = hist.attempts
       /\ pc' = "summary" =>
              \A platform \in hist'.auth_failed : summary'[platform].failed > 0]_vars

----------------------------------------------------------------------------
(* Properties of the two deliveries of a category                         *)

\* the selected events that carry a click id for the platform, in order
EventsFor(platform) ==
    SelectSeq(events, LAMBDA e : ClickId(e.user_id, platform) # NULL)

EventIds(rows) == [i \in 1..Len(rows) |-> rows[i].event_id]

\* C21: in a category every selected event is handed to each platform it has
\* a click id for, and what happens on the Google Ads side (rejections or an
\* exception) leaves the Microsoft Ads side as it would be without it: the
\* Microsoft Ads block is entered with the same events, submits exactly those
\* with an msclkid, and its log rows are one per submitted event, on
\* Microsoft Ads, with the status of the Microsoft Ads outcome.
C21_DeliveriesAreIndependent ==
    [][/\ pc \in {"gads_upload", "gads_log"} =>
              /\ pc' \in {"gads_log", "msads_upload"}
              /\ events' = events
       /\ pc' = "gads_log" => EventIds(call'.items) = EventIds(EventsFor(GOOGLE))
       /\ (pc = "msads_upload" /\ EventsFor(MICROSOFT) # <<>>) =>
              /\ pc' = "msads_log"
              /\ EventIds(call'.items) = EventIds(EventsFor(MICROSOFT))
              /\ Len(call'.out.results) = Len(call'.items)
       /\ (pc = "msads_log" /\ log' # log) =>
              LET rows == SubSeq(log', Len(log) + 1, Len(log'))
              IN  /\ EventIds(rows) = EventIds(EventsFor(MICROSOFT))
                  /\ \A i \in 1..Len(rows) :
                        /\ rows[i].platform = MICROSOFT
                        /\ rows[i].status =
                              IF call.out.results[i][2] THEN "sent" ELSE "failed"]_vars

\* an event rejected by Google Ads has been delivered to Microsoft Ads in the
\* same run
C21_Witness ==
    \E i, j \in (hist.run_start + 1)..Len(log) :
        /\ log[i].event_id = log[j].event_id
        /\ log[i].platform = GOOGLE /\ log[i].status = "failed"
        /\ log[j].platform = MICROSOFT /\ log[j].status = "sent"

\* C22: when a run with the log available is about to execute a selection
\* query, of a category or of the refunds, or has reached its summary, every
\* outcome its platform calls returned so far has its entry in the log.
C22_OutcomesLoggedBeforeNextSelection ==
    (pc \in {"category", "refunds", "summary"} /\ ~skip_dedup) =>
        Len(log) - hist.run_start = hist.outcomes

\* the Rejected outcomes of the call just made
Rejected == {i \in 1..Len(call.out.results) : ~call.out.results[i][2]}

----------------------------------------------------------------------------
(* Properties of the retraction messages                                  *)

\* log entry k is a 'sent' entry of a non-refund event of the user of refund
\* id on the platform
IsOriginalOf(k, id, platform) ==
    /\ log[k].status = "sent"
    /\ log[k].event_type # "refund"
    /\ log[k].platform = platform
    /\ \E p \in Refunds(warehouse) : p.payment_id = id /\ p.user_id = log[k].user_id

\* the retraction message m names entry o of the log: its event id, its
\* conversion action and its click id
NamesOriginal(m, o, platform) ==
    IF platform = GOOGLE
    THEN /\ m.order_id = o.event_id
         /\ m.conversion_action = <<"conversionActions", o.conversion_action>>
         /\ "gclid" \in DOMAIN m
         /\ m["gclid"] = o.click_id
    ELSE /\ m.eventId = o.event_id \/ m.transactionId[2] = o.event_id
         /\ m.eventName = o.conversion_action
         /\ m.msclkid = o.click_id

\* C24: every message of a retraction call names a 'sent' entry of the
\* refund's user on that platform by its event id, conversion action and
\* click id, and every row logged for a retraction has the event id of such an
\* entry as its original_event_id.
C24_RetractionNamesOriginal ==
    /\ \A platform \in Platforms :
          pc = (IF platform = GOOGLE THEN "gads_retract_log" ELSE "msads_retract_log") =>
              \A i \in 1..Len(call.out.messages) :
                  \E k \in 1..Len(log) :
                      /\ IsOriginalOf(k, call.items[i].event_id, platform)
                      /\ NamesOriginal(call.out.messages[i], log[k], platform)
    /\ \A j \in 1..Len(log) :
          log[j].event_type = "refund" =>
              \E k \in 1..(j - 1) :
                  /\ IsOriginalOf(k, log[j].event_id, log[j].platform)
                  /\ log[j].original_event_id = log[k].event_id

----------------------------------------------------------------------------
(* Properties across runs                                                  *)

\* the number of entries of (id, platform) with the status among the first n
\* entries of the log
CountBefore(n, id, platform, status) ==
    Cardinality({j \in 1..n : /\ log[j].event_id = id
                              /\ log[j].platform = platform
                              /\ log[j].status = status})

\* C25: exclusion is permanent: an (event, platform) that had a 'sent' entry
\* or MAX_RETRIES 'failed' entries when a run started is not submitted in that
\* run, so the run appends no entry for it.
C25_ExclusionIsPermanent ==
    \A i \in (hist.run_start + 1)..Len(log) :
        /\ CountBefore(hist.run_start, log[i].event_id, log[i].platform, "sent") = 0
        /\ CountBefore(hist.run_start, log[i].event_id, log[i].platform, "failed")
              < MAX_RETRIES

\* requests.post or the Google Ads service raised for the batch: a timeout or
\* another transport error
TransportError(response) == response.kind \in {"Timeout", "Exception"}

\* the platform an adapter function talks to
PlatformOf(fn) == IF fn \in GadsFns THEN GOOGLE ELSE MICROSOFT

----------------------------------------------------------------------------
(* Properties of the payloads with PII                                    *)

\* v is a digest of a normalized text: marked as a digest, without blanks and
\* without upper-case characters
IsNormalizedDigest(v) ==
    /\ v # <<>>
    /\ v[1] = "sha256"
    /\ \A i \in 2..Len(v) : v[i] \notin {" ", "A", "B", "C", "Gmail.com"}

\* the text is missing: None, empty or blank
Absent(text) == text = NONE \/ \A i \in 1..Len(text) : text[i] = " "

\* the email has no '@', or nothing but blanks after its first '@'
Malformed(email) ==
    \/ \A i \in 1..Len(email) : email[i] # "@"
    \/ \E i \in 1..Len(email) :
          /\ email[i] = "@"
          /\ \A j \in 1..(i - 1) : email[j] # "@"
          /\ \A j \in (i + 1)..Len(email) : email[j] = " "

\* the values a message carries for the email and the names of its conversion
EmailValues(m) ==
    IF "em" \in DOMAIN m THEN (IF m.em = NONE THEN {} ELSE {m.em})
    ELSE {m.user_identifiers[k].hashed_email :
            k \in {x \in 1..Len(m.user_identifiers) : m.user_identifiers[x].kind = "email"}}

NameValues(m) ==
    IF "em" \in DOMAIN m THEN {}
    ELSE UNION {{m.user_identifiers[k].hashed_first_name,
                 m.user_identifiers[k].hashed_last_name} \ {NONE} :
            k \in {x \in 1..Len(m.user_identifiers) : m.user_identifiers[x].kind = "address"}}

\* the address components a message carries in the clear
AddressValues(m) ==
    IF "em" \in DOMAIN m THEN {}
    ELSE UNION {{m.user_identifiers[k].city, m.user_identifiers[k].state,
                 m.user_identifiers[k].country_code,
                 m.user_identifiers[k].postal_code} \ {NONE} :
            k \in {x \in 1..Len(m.user_identifiers) : m.user_identifiers[x].kind = "address"}}

----------------------------------------------------------------------------
(* Properties of an interrupted run                                       *)

\* C28: when a run was interrupted after a platform accepted events and before
\* their outcomes were written, the next run, in normal mode, selects each of
\* these events again in the same category with a click id for the same
\* platform, and the upload call for that platform, once made, has it among
\* its conversions; and no step, the interruption included, changes or removes an entry
\* of the log.
C28_UnloggedDuplicateAfterInterrupt ==
    /\ [](( /\ hist.interrupted_run > 0
            /\ runs = hist.interrupted_run + 1
            /\ ~skip_dedup
            /\ JustSelected({hist.interrupted_cat}) ) =>
          \A u \in hist.unlogged :
              /\ \E i \in 1..Len(EventsFor(u[2])) : EventsFor(u[2])[i].event_id = u[1]
              /\ pc = (IF u[2] = GOOGLE THEN "gads_log" ELSE "msads_log") =>
                    \E i \in 1..Len(call.items) : call.items[i].event_id = u[1])
    /\ [][Len(log') >= Len(log) /\ SubSeq(log', 1, Len(log)) = log]_vars

----------------------------------------------------------------------------
(* Properties of two concurrent runs                                      *)

\* some (event, platform) has two 'sent' entries in the log
TwoSent == \E id \in LoggedIds, platform \in Platforms : LogCount(id, platform, "sent") >= 2

\* both processes are in a run, they selected the same event while it had no
\* 'sent' entry, and each of them got it accepted by the same platform
C29_BothSubmitted ==
    /\ hist.other # <<>>
    /\ hist.other[1].pc # "idle"
    /\ pc # "idle"
    /\ \E id \in LoggedIds, platform \in Platforms :
          /\ LogCount(id, platform, "sent") = 2
          /\ \E i \in (hist.run_start + 1)..Len(log) :
                /\ log[i].event_id = id /\ log[i].platform = platform
                /\ log[i].status = "sent"
                /\ CountBefore(hist.sel_at, id, platform, "sent") = 0
          /\ \E i \in (hist.other[1].hist.run_start + 1)..Len(log) :
                /\ log[i].event_id = id /\ log[i].platform = platform
                /\ log[i].status = "sent"
                /\ CountBefore(hist.other[1].hist.sel_at, id, platform, "sent") = 0

\* C29: two 'sent' entries for one (event, platform) come about only when two
\* runs were interleaved: while the processor never changed hands, that is
\* with the runs strictly one after the other, the log has at most one 'sent'
\* entry per (event, platform).
C29_TwoSentOnlyWhenConcurrent ==
    TwoSent => (hist.switches > 0 \/ hist.insert_failed)

----------------------------------------------------------------------------
(* Properties of the conversion-action cache                              *)

\* C30: within one run every conversion-action name is searched on the
\* platform at most once, by uploads and retractions together; a step of a
\* run never removes or changes an entry of the cache; and a run starts with
\* an empty cache.
C30_CacheLooksUpOnce ==
    /\ [](\A i, j \in 1..Len(hist.lookups) :
              hist.lookups[i] = hist.lookups[j] => i = j)
    /\ [][ /\ runs' = runs =>
                \A key \in DOMAIN cache : key \in DOMAIN cache' /\ cache'[key] = cache[key]
           /\ runs' # runs => cache' = EmptyDict ]_vars

----------------------------------------------------------------------------
(* Properties of the result list of an adapter call                       *)

\* C31: a call of an adapter that returns gives one (event_id, success,
\* message) tuple per input item, in input order: the i-th tuple has the
\* event_id of the i-th item, a Boolean and a message, whatever the answers to
\* the batches were.
C31_OneResultPerItemInOrder ==
    Returned =>
        /\ Len(call.out.results) = Len(call.items)
        /\ \A i \in 1..Len(call.out.results) :
              /\ Len(call.out.results[i]) = 3
              /\ call.out.results[i][1] = call.items[i].event_id
              /\ call.out.results[i][2] \in BOOLEAN

\* a returned call of three items in two batches, the first batch failing as
\* a whole and the second answered by a partial failure naming its item
C31_Witness ==
    /\ Returned
    /\ Len(call.items) = 3
    /\ Len(call.responses) = 2
    /\ TotalFailure(call.responses[1])
    /\ NamesIndices(call.responses[2], 1)
    /\ call.out.results[1][2] = FALSE
    /\ call.out.results[3][2] = FALSE
    /\ call.out.results[3][1] = call.items[3].event_id


\* C32: the indices of a partial failure count inside the batch it was
\* returned for: input item i of a batch answered by a partial failure is
\* Rejected exactly when that answer names the index of i inside its own
\* batch; what the answers to the other batches name, and an index that is no
\* position of the batch, reject nothing.
C32_IndicesAreRelativeToBatch ==
    Returned =>
        \A i \in Positions :
            IsPartial(call.responses[BatchOf(i)]) =>
                (call.out.results[i][2] = FALSE
                    <=> \E x \in Named(call.responses[BatchOf(i)]) : x[1] = IndexOf(i))

\* a returned call of three items in two batches of two and one: the answer
\* to the first batch names index 0, the answer to the second names an index
\* outside it; of the three items only the first is Rejected
C32_Witness ==
    /\ Returned
    /\ Len(call.items) = 3
    /\ BatchOf(3) = 2
    /\ IsPartial(call.responses[1])
    /\ IsPartial(call.responses[2])
    /\ {x[1] : x \in Named(call.responses[1])} = {0}
    /\ {x[1] : x \in Named(call.responses[2])} = {2}
    /\ call.out.results[1][2] = FALSE
    /\ call.out.results[2][2] = TRUE
    /\ call.out.results[3][2] = TRUE

----------------------------------------------------------------------------
(* Properties of the log rows of a run                                    *)

\* the run appended an entry for (id, platform)
AppendedInRun(id, platform) ==
    \E i \in (hist.run_start + 1)..Len(log) :
        log[i].event_id = id /\ log[i].platform = platform

\* C33: when a run has ended, every event of a batch that was handed to a
\* platform during the run has a log entry for that (event, platform) which
\* the run appended.
C33_HandedEventsAreLogged ==
    RunEnded => \A u \in hist.handed : AppendedInRun(u[1], u[2])


\* the number of entries with the platform and the status that the run appended
AppendedCount(platform, status) ==
    Cardinality({i \in (hist.run_start + 1)..Len(log) :
                    log[i].platform = platform /\ log[i].status = status})

\* C34: when a run has printed its summary, the sent, retracted and failed
\* counters of each platform are the numbers of 'sent', 'retracted' and
\* 'failed' entries of that platform which the run appended to the log.
C34_SummaryMatchesLog ==
    (RunEnded /\ hist.summarized) =>
        \A platform \in Platforms :
            /\ summary[platform].sent = AppendedCount(platform, "sent")
            /\ summary[platform].retracted = AppendedCount(platform, "retracted")
            /\ summary[platform].failed = AppendedCount(platform, "failed")

----------------------------------------------------------------------------
(* Properties of the retractions of one user                              *)

\* C35: the log never holds two 'retracted' entries with the same
\* original_event_id and the same platform.
C35_RetractedAtMostOnce ==
    \A i, j \in 1..Len(log) :
        ( /\ log[i].status = "retracted"
          /\ log[j].status = "retracted"
          /\ log[i].platform = log[j].platform
          /\ log[i].original_event_id = log[j].original_event_id ) => i = j

\* C36: the entry a refund is matched to is not later than the refund: a
\* 'sent' entry named by the original_event_id of a refund entry of the same
\* platform has a conversion_time that is not after the refund's payment time.
C36_OriginalPrecedesRefund ==
    \A i, j \in 1..Len(log) :
        ( /\ log[i].event_type = "refund"
          /\ log[j].event_type # "refund"
          /\ log[j].status = "sent"
          /\ log[j].platform = log[i].platform
          /\ log[j].event_id = log[i].original_event_id ) =>
            log[j].conversion_time <= log[i].conversion_time


----------------------------------------------------------------------------
(* Properties of a run under DRY_RUN *)

\* C37: a run under DRY_RUN makes no platform call (no action lookup, no batch
\* submitted), acquires no platform client, appends no row to the log and
\* leaves every summary counter at zero; its four category queries and the
\* refund query are still executed.
C37_DryRunTouchesNothing ==
    (DRY_RUN /\ runs > 0) =>
        /\ call = NoCall
        /\ hist.attempts = 0
        /\ hist.outcomes = 0
        /\ hist.handed = {}
        /\ hist.lookups = <<>>
        /\ ~hist.clients
        /\ Len(log) = hist.run_start
        /\ summary = ZeroSummary
        /\ RunEnded => (hist.cats = 1..NumCategories /\ hist.refunds_attempted)

\* a run under DRY_RUN has ended after its queries selected events of both
\* platforms and a refund
C37_Witness ==
    /\ DRY_RUN
    /\ RunEnded
    /\ hist.summarized
    /\ log # <<>>
    /\ events # <<>>
    /\ event_queries(warehouse, log, 1) # <<>>


----------------------------------------------------------------------------
(* Properties of what one run submits *)

\* the event ids of the rows the query of category c returns on the present log
SelectedIds(c) == Ids(event_queries(warehouse, log, c))

\* C38: within a run each (event, platform) pair is submitted at most once:
\* the run has submitted as many items as it has submitted distinct pairs, no
\* id is twice in the list of a call, each category is selected once, and no
\* event is in the result of two categories.
C38_EachPairSubmittedOncePerRun ==
    /\ hist.attempts = Cardinality(hist.handed)
    /\ call.done =>
        \A i, j \in 1..Len(call.items) :
            i # j => call.items[i].event_id # call.items[j].event_id
    /\ \A c1, c2 \in 1..NumCategories : c1 # c2 => SelectedIds(c1) \cap SelectedIds(c2) = {}


----------------------------------------------------------------------------
(* Properties of the fields of a log row *)

\* the row at position i of the log is a row of a refund
IsRefundRow(i) == log[i].event_type = "refund"

\* C39: a row of a non-refund event has status 'sent' or 'failed' and no
\* original_event_id; a row of a refund has status 'retracted' or 'failed' and
\* the original_event_id of an earlier 'sent' row of a non-refund event on the
\* same platform; api_response is set only on rows of a success and
\* error_message only on 'failed' rows.
C39_StatusFollowsKindAndOutcome ==
    \A i \in 1..Len(log) :
        /\ ~IsRefundRow(i) =>
            /\ log[i].status \in {"sent", "failed"}
            /\ log[i].original_event_id = NULL
        /\ IsRefundRow(i) =>
            /\ log[i].status \in {"retracted", "failed"}
            /\ log[i].original_event_id # NULL
            /\ \E j \in 1..(i - 1) :
                /\ ~IsRefundRow(j)
                /\ log[j].event_id = log[i].original_event_id
                /\ log[j].platform = log[i].platform
                /\ log[j].status = "sent"
        /\ log[i].api_response # NoMessage => log[i].status \in {"sent", "retracted"}
        /\ log[i].error_message # NoMessage => log[i].status = "failed"

\* the log holds an accepted and a rejected retraction, and a rejected
\* conversion with its error message
C39_Witness ==
    /\ \E i \in 1..Len(log) : IsRefundRow(i) /\ log[i].status = "retracted"
                              /\ log[i].api_response # NoMessage
    /\ \E i \in 1..Len(log) : IsRefundRow(i) /\ log[i].status = "failed"
                              /\ log[i].error_message # NoMessage
    /\ \E i \in 1..Len(log) : ~IsRefundRow(i) /\ log[i].status = "failed"
                              /\ log[i].error_message # NoMessage

====
